---- MODULE Spec2Model ----
(***************************************************************************)
(* pyppt (src/pyppt/core.py): placing a figure on a PowerPoint slide.      *)
(*                                                                         *)
(* Numbers.  The code computes with Python floats.  Here a number is an    *)
(* exact rational <<n, d>> in lowest terms with d > 0; IEEE rounding is    *)
(* not modelled.  A rectangle is <<x, y, w, h>> of such numbers, as the    *)
(* code's lists [x, y, width, height].                                     *)
(*                                                                         *)
(* Strings.  A preset name is a sequence of one-character strings, so that *)
(* lower(), upper() and endswith() are computed and not assumed.           *)
(***************************************************************************)
EXTENDS Integers, Sequences, FiniteSets, TLC

VARIABLES
    shapes,     \* Slide.Shapes in enumeration order (Shapes.Item(1..Count))
    zorder,     \* shape ids from back to front: ZOrderPosition = index
    slideDims,  \* <<PageSetup.SlideWidth, PageSetup.SlideHeight>>
    tmpfile,    \* TRUE while the temporary raster file fname exists
    pc,         \* "idle" before the call, "done" after it returned or raised
    call,       \* the function called and its arguments
    ret,        \* what the call returned or raised, and what it did on the way
    shapes0,    \* Slide.Shapes when the call started
    zorder0,    \* the z-order when the call started
    presentation,   \* Presentation.Slides and the number of the active slide
    presentation0,  \* the presentation when the call started
    localfile,  \* TRUE while the client's temporary raster file exists
    serverfiles,    \* the paths of the files uploaded to the relay that exist
    net         \* the HTTP requests and responses in flight

vars == <<shapes, zorder, slideDims, tmpfile, pc, call, ret, shapes0, zorder0,
          presentation, presentation0, localfile, serverfiles, net>>

(***************************************************************************)
(* Bounds of the model.                                                    *)
(***************************************************************************)
\* rectangle coordinates of the geometry checks range over 0..MaxCoord
MaxCoord == 2
\* image width and height (w, h) range over 1..MaxImg
MaxImg == 3
\* letter-case patterns of a preset name: bit (i % CaseBits) of the pattern
\* number decides whether character i is written in upper case
CaseBits == 3

(***************************************************************************)
(* Exact arithmetic for Python's float expressions.                        *)
(***************************************************************************)
Abs(n) == IF n < 0 THEN -n ELSE n

RECURSIVE GCD(_, _)
GCD(a, b) == IF b = 0 THEN a ELSE GCD(b, a % b)

\* the rational n/d in lowest terms, d # 0
Frac(n, d) ==
    LET g == GCD(Abs(n), Abs(d))
        s == IF d < 0 THEN -1 ELSE 1
    IN  <<s * (n \div g), s * (d \div g)>>

R(n) == <<n, 1>>

RAdd(a, b) ==
    LET g == GCD(a[2], b[2])
    IN  Frac(a[1] * (b[2] \div g) + b[1] * (a[2] \div g), (a[2] \div g) * b[2])

RNeg(a) == <<-a[1], a[2]>>

RSub(a, b) == RAdd(a, RNeg(b))

RMul(a, b) ==
    LET g1 == GCD(Abs(a[1]), b[2])
        g2 == GCD(Abs(b[1]), a[2])
    IN  Frac((a[1] \div g1) * (b[1] \div g2), (a[2] \div g2) * (b[2] \div g1))

\* a / b for b # 0 (Python raises ZeroDivisionError for b = 0: see the callers)
RDiv(a, b) == RMul(a, IF b[1] < 0 THEN <<-b[2], -b[1]>> ELSE <<b[2], b[1]>>)

RLt(a, b) ==
    LET g == GCD(a[2], b[2])
    IN  a[1] * (b[2] \div g) < b[1] * (a[2] \div g)

RLe(a, b) == ~RLt(b, a)

RMax(a, b) == IF RLt(a, b) THEN b ELSE a

RMin(a, b) == IF RLt(b, a) THEN b ELSE a

RAbs(a) == <<Abs(a[1]), a[2]>>

Zero == R(0)

One == R(1)

Half == Frac(1, 2)

\* the list [x, y, w, h] of four integers
Rect(x, y, w, h) == <<R(x), R(y), R(w), R(h)>>

(***************************************************************************)
(* Geometry utilities.                                                     *)
(***************************************************************************)
\* _keep_aspect with the comparison of the two aspects turned round
_keep_aspect_flipped(bbox, w, h) ==
    LET bx == bbox[1]
        by == bbox[2]
        bw == bbox[3]
        bh == bbox[4]
        aspect_fig  == RDiv(R(w), R(h))
        aspect_bbox == RDiv(bw, bh)
    IN  IF RLt(aspect_fig, aspect_bbox)
        THEN LET newh == RDiv(bw, aspect_fig)
             IN  <<bx, RSub(RAdd(by, RDiv(bh, R(2))), RDiv(newh, R(2))), bw, newh>>
        ELSE LET neww == RMul(bh, aspect_fig)
             IN  <<RSub(RAdd(bx, RDiv(bw, R(2))), RDiv(neww, R(2))), by, neww, bh>>

\* _keep_aspect(bbox, w, h) with w and h given and bbox[4] # 0, h # 0:
\* the rectangle of aspect w/h centred in bbox
_keep_aspect(bbox, w, h) ==
    LET bx == bbox[1]
        by == bbox[2]
        bw == bbox[3]
        bh == bbox[4]
        aspect_fig  == RDiv(R(w), R(h))
        aspect_bbox == RDiv(bw, bh)
    IN  IF RLt(aspect_bbox, aspect_fig)
        THEN LET newh == RDiv(bw, aspect_fig)
             IN  <<bx, RSub(RAdd(by, RDiv(bh, R(2))), RDiv(newh, R(2))), bw, newh>>
        ELSE LET neww == RMul(bh, aspect_fig)
             IN  <<RSub(RAdd(bx, RDiv(bw, R(2))), RDiv(neww, R(2))), by, neww, bh>>

\* OverlapWH without the clamp of a negative extent to 0
OverlapWH_noclamp(a, b) ==
    LET x == RMax(a[1], b[1])
        y == RMax(a[2], b[2])
    IN  <<RSub(RMin(RAdd(a[1], a[3]), RAdd(b[1], b[3])), x),
          RSub(RMin(RAdd(a[2], a[4]), RAdd(b[2], b[4])), y)>>

\* the overlap of a and b before the division: <<w, h>> after the clamp
OverlapWH(a, b) ==
    LET x == RMax(a[1], b[1])
        y == RMax(a[2], b[2])
        w == RSub(RMin(RAdd(a[1], a[3]), RAdd(b[1], b[3])), x)
        h == RSub(RMin(RAdd(a[2], a[4]), RAdd(b[2], b[4])), y)
    IN  IF RLt(w, Zero) \/ RLt(h, Zero) THEN <<Zero, Zero>> ELSE <<w, h>>

\* float(b[2]) or float(b[3]) is 0: the division raises ZeroDivisionError
IntersectionRaises(a, b) == b[3] = Zero \/ b[4] = Zero

\* _intersection_area(a, b) where it does not raise: w * h / b[2] / b[3].
\* The quotient is taken factor by factor, (w / b[2]) * (h / b[3]), which is
\* the same number and keeps the intermediate products small.
_intersection_area(a, b) ==
    LET wh == OverlapWH(a, b)
    IN  RMul(RDiv(wh[1], b[3]), RDiv(wh[2], b[4]))

(***************************************************************************)
(* Strings: str.lower(), str.upper(), str.endswith() on ASCII names.       *)
(***************************************************************************)
LowerChars ==
    <<"a", "b", "c", "d", "e", "f", "g", "h", "i", "j", "k", "l", "m",
      "n", "o", "p", "q", "r", "s", "t", "u", "v", "w", "x", "y", "z">>

UpperChars ==
    <<"A", "B", "C", "D", "E", "F", "G", "H", "I", "J", "K", "L", "M",
      "N", "O", "P", "Q", "R", "S", "T", "U", "V", "W", "X", "Y", "Z">>

lowerChar(c) ==
    IF \E i \in 1..Len(UpperChars) : UpperChars[i] = c
    THEN LowerChars[CHOOSE i \in 1..Len(UpperChars) : UpperChars[i] = c]
    ELSE c

upperChar(c) ==
    IF \E i \in 1..Len(LowerChars) : LowerChars[i] = c
    THEN UpperChars[CHOOSE i \in 1..Len(LowerChars) : LowerChars[i] = c]
    ELSE c

lower(s) == [i \in 1..Len(s) |-> lowerChar(s[i])]

upper(s) == [i \in 1..Len(s) |-> upperChar(s[i])]

endswith(s, suffix) ==
    /\ Len(suffix) <= Len(s)
    /\ SubSeq(s, Len(s) - Len(suffix) + 1, Len(s)) = suffix

(***************************************************************************)
(* The preset tables, [x, y, width, height] as fractions of the slide.     *)
(***************************************************************************)
presets ==
    (<<"c", "e", "n", "t", "e", "r">> :>
        <<Frac(415, 10000), Frac(227, 1000), Frac(917, 1000), Frac(716, 1000)>>)
    @@ (<<"f", "u", "l", "l">> :> <<Zero, Zero, One, One>>)

preset_sizes ==
    (<<>> :> <<Frac(415, 10000), Frac(227, 1000), Frac(917, 1000), Frac(716, 1000)>>)
    @@ (<<"L">> :>
        <<Frac(415, 10000), Frac(153, 1000), Frac(917, 1000), Frac(790, 1000)>>)
    @@ (<<"X", "L">> :>
        <<Frac(415, 10000), Frac(49, 1000), Frac(917, 1000), Frac(888, 1000)>>)
    @@ (<<"X", "X", "L">> :> <<Zero, Zero, One, One>>)

preset_modifiers ==
    (<<"c", "e", "n", "t", "e", "r">> :> <<Zero, Zero, One, One>>)
    @@ (<<"l", "e", "f", "t">> :> <<Zero, Zero, Half, One>>)
    @@ (<<"r", "i", "g", "h", "t">> :> <<Half, Zero, Half, One>>)
    @@ (<<"t", "o", "p", "l", "e", "f", "t">> :> <<Zero, Zero, Half, Half>>)
    @@ (<<"t", "o", "p", "r", "i", "g", "h", "t">> :> <<Half, Zero, Half, Half>>)
    @@ (<<"b", "o", "t", "t", "o", "m", "l", "e", "f", "t">> :>
        <<Zero, Half, Half, Half>>)
    @@ (<<"b", "o", "t", "t", "o", "m", "r", "i", "g", "h", "t">> :>
        <<Half, Half, Half, Half>>)
    @@ (<<"2", "2", "1">> :> <<Zero, Zero, Half, Half>>)
    @@ (<<"2", "2", "2">> :> <<Half, Zero, Half, Half>>)
    @@ (<<"2", "2", "3">> :> <<Zero, Half, Half, Half>>)
    @@ (<<"2", "2", "4">> :> <<Half, Half, Half, Half>>)
    @@ (<<"2", "3", "1">> :> <<Zero, Zero, Frac(1, 3), Half>>)
    @@ (<<"2", "3", "2">> :> <<Frac(1, 3), Zero, Frac(1, 3), Half>>)
    @@ (<<"2", "3", "3">> :> <<Frac(2, 3), Zero, Frac(1, 3), Half>>)
    @@ (<<"2", "3", "4">> :> <<Zero, Half, Frac(1, 3), Half>>)
    @@ (<<"2", "3", "5">> :> <<Frac(1, 3), Half, Frac(1, 3), Half>>)
    @@ (<<"2", "3", "6">> :> <<Frac(2, 3), Half, Frac(1, 3), Half>>)

\* {k.lower(): v for k, v in d.items()}
LowerKeys(d) ==
    [k2 \in {lower(k) : k \in DOMAIN d} |-> d[CHOOSE k \in DOMAIN d : lower(k) = k2]]

\* {k.upper(): v for k, v in d.items()}
UpperKeys(d) ==
    [k2 \in {upper(k) : k \in DOMAIN d} |-> d[CHOOSE k \in DOMAIN d : upper(k) = k2]]

(***************************************************************************)
(* Preset resolver.                                                        *)
(***************************************************************************)
\* line 412: [k.lower() for k in presets.keys()]
preset_names == {lower(k) : k \in DOMAIN presets}

\* lines 414-415: names
modifier_size_names ==
    {lower(m \o s) : s \in DOMAIN preset_sizes, m \in DOMAIN preset_modifiers}

\* _is_valid_preset_name comparing the name as written with the lowered keys
_is_valid_preset_name_cased(name) ==
    IF name \in preset_names THEN TRUE ELSE name \in modifier_size_names

_is_valid_preset_name(name) ==
    IF lower(name) \in preset_names THEN TRUE ELSE lower(name) \in modifier_size_names

\* line 423: _presets
_presets == LowerKeys(presets)

\* line 426: _preset_sizes
_preset_sizes == UpperKeys(preset_sizes)

\* line 427: _preset_modifiers
_preset_modifiers == LowerKeys(preset_modifiers)

\* LongestSize taking the shortest matching suffix instead
LongestSize_shortest(name) ==
    LET size == {k \in DOMAIN _preset_sizes : endswith(name, k)}
    IN  CHOOSE k \in size : \A k2 \in size : Len(k) <= Len(k2)

\* "Take the longest suffix that matches the name": name is in upper case
LongestSize(name) ==
    LET size == {k \in DOMAIN _preset_sizes : endswith(name, k)}
    IN  CHOOSE k \in size : \A k2 \in size : Len(k2) <= Len(k)

\* name[:len(name)-len(size)].lower() in _parse_preset's except branch
ModifierKey(name) ==
    LET NAME == upper(name)
        size == LongestSize(NAME)
    IN  lower(SubSeq(NAME, 1, Len(NAME) - Len(size)))

\* _parse_preset(name) ends with KeyError: neither a preset nor a modifier
ParseRaises(name) ==
    /\ lower(name) \notin DOMAIN _presets
    /\ ModifierKey(name) \notin DOMAIN _preset_modifiers

\* _parse_preset that does not scale the offset of the modifier by the size
_parse_preset_shifted(name) ==
    IF lower(name) \in DOMAIN _presets
    THEN _presets[lower(name)]
    ELSE LET boundary == _preset_sizes[LongestSize(upper(name))]
             bbox == _preset_modifiers[ModifierKey(name)]
         IN  <<RAdd(boundary[1], bbox[1]),
               RAdd(boundary[2], bbox[2]),
               RMul(boundary[3], bbox[3]),
               RMul(boundary[4], bbox[4])>>

\* _parse_preset(name) where it does not raise
_parse_preset(name) ==
    IF lower(name) \in DOMAIN _presets
    THEN _presets[lower(name)]
    ELSE LET boundary == _preset_sizes[LongestSize(upper(name))]
             bbox == _preset_modifiers[ModifierKey(name)]
         IN  <<RAdd(boundary[1], RMul(bbox[1], boundary[3])),
               RAdd(boundary[2], RMul(bbox[2], boundary[4])),
               RMul(boundary[3], bbox[3]),
               RMul(boundary[4], bbox[4])>>

\* get_slide_dimensions()
get_slide_dimensions == slideDims

\* _scale_bbox with the ends of [0, 1] left out
_scale_bbox_open(bbox) ==
    IF \A i \in 1..4 : RLt(Zero, bbox[i]) /\ RLt(bbox[i], One)
    THEN LET W == R(get_slide_dimensions[1])
             H == R(get_slide_dimensions[2])
         IN  <<RMul(bbox[1], W), RMul(bbox[2], H), RMul(bbox[3], W), RMul(bbox[4], H)>>
    ELSE bbox

\* _scale_bbox(bbox)
_scale_bbox(bbox) ==
    IF \A i \in 1..4 : RLe(Zero, bbox[i]) /\ RLe(bbox[i], One)
    THEN LET W == R(get_slide_dimensions[1])
             H == R(get_slide_dimensions[2])
         IN  <<RMul(bbox[1], W), RMul(bbox[2], H), RMul(bbox[3], W), RMul(bbox[4], H)>>
    ELSE bbox

(***************************************************************************)
(* The geometry utilities and the preset resolver are pure: each is called *)
(* once, on arguments drawn from the sets below, from an idle state.       *)
(***************************************************************************)
\* PageSetup of the open presentation: points (4:3) or EMU-sized units
SlideDimsSet == {<<720, 540>>, <<9144000, 6858000>>}

\* a presentation of one slide: [Slides, active] with Slides the sequence
\* of the slides, each [id, CustomLayout], and active the SlideNumber of
\* the slide in the active window
OnePresentation == [Slides |-> <<[id |-> 1, CustomLayout |-> "Blank"]>>, active |-> 1]

\* no remote call is under way
NoRemote ==
    /\ localfile = FALSE
    /\ serverfiles = {}
    /\ net = {}

NoSlide ==
    /\ NoRemote
    /\ presentation = OnePresentation
    /\ presentation0 = OnePresentation
    /\ shapes = <<>>
    /\ zorder = <<>>
    /\ shapes0 = <<>>
    /\ zorder0 = <<>>
    /\ tmpfile = FALSE

Returned(v) == [raised |-> "none", value |-> v]

Raised(e) == [raised |-> e]

\* rectangles on the grid with positive width and height
GridRects ==
    {Rect(x, y, w, h) : x \in 0..MaxCoord, y \in 0..MaxCoord,
                        w \in 1..MaxCoord, h \in 1..MaxCoord}

InitGeometry ==
    /\ NoSlide
    /\ slideDims = <<720, 540>>
    /\ pc = "idle"
    /\ call = [fn |-> "none"]
    /\ ret = [raised |-> "none"]

\* rectangles on the grid, also of zero or negative width or height
AnyGridRects ==
    {Rect(x, y, w, h) : x \in 0..MaxCoord, y \in 0..MaxCoord,
                        w \in (-1)..MaxCoord, h \in (-1)..MaxCoord}

CallIntersectionArea ==
    /\ pc = "idle"
    /\ \E a \in GridRects, b \in AnyGridRects :
        /\ pc' = "done"
        /\ call' = [fn |-> "_intersection_area", a |-> a, b |-> b]
        /\ ret' = IF IntersectionRaises(a, b)
                  THEN Raised("ZeroDivisionError")
                  ELSE Returned(_intersection_area(a, b))
        /\ UNCHANGED <<shapes, zorder, slideDims, tmpfile, shapes0, zorder0,
                       presentation, presentation0,
                       localfile, serverfiles, net>>

CallKeepAspect ==
    /\ pc = "idle"
    /\ \E bbox \in GridRects, w \in 1..MaxImg, h \in 1..MaxImg :
        /\ pc' = "done"
        /\ call' = [fn |-> "_keep_aspect", bbox |-> bbox, w |-> w, h |-> h]
        /\ ret' = Returned(_keep_aspect(bbox, w, h))
        /\ UNCHANGED <<shapes, zorder, slideDims, tmpfile, shapes0, zorder0,
                       presentation, presentation0,
                       localfile, serverfiles, net>>

NextGeometry == CallIntersectionArea \/ CallKeepAspect

SpecGeometry == InitGeometry /\ [][NextGeometry]_vars

\* name with the letter case of pattern k: character i is in upper case
\* when bit (i % CaseBits) of k is set
CaseVariant(name, k) ==
    [i \in 1..Len(name) |->
        IF (k \div (2 ^ (i % CaseBits))) % 2 = 1
        THEN upperChar(name[i]) ELSE lowerChar(name[i])]

\* every modifier + size and every base preset, in CaseBits-periodic cases
TableNames ==
    {CaseVariant(m \o s, k) : m \in DOMAIN preset_modifiers,
                              s \in DOMAIN preset_sizes,
                              k \in 0..(2 ^ CaseBits - 1)}
    \cup {CaseVariant(b, k) : b \in DOMAIN presets, k \in 0..(2 ^ CaseBits - 1)}

\* names as callers write them, and names that are no preset
OtherNames ==
    { <<"T", "o", "p", "L", "e", "f", "t", "X", "L">>,
      <<"b", "o", "t", "t", "o", "m", "r", "i", "g", "h", "t", "L">>,
      <<"C", "e", "n", "t", "e", "r">>,
      <<"b", "a", "n", "a", "n", "a">>,
      <<>>,
      <<"L">>, <<"X", "L">>, <<"X", "X", "L">>, <<"x", "l">>,
      <<"f", "u", "l", "l", "L">>,
      <<"l", "e", "f", "t", "X">>,
      <<"X", "L", "l", "e", "f", "t">>,
      <<"2", "2">>, <<"2", "2", "7">>, <<"2", "3", "3", "L", "L">> }

ProbeNames == TableNames \cup OtherNames

\* components below 0, inside [0, 1], on its ends and above 1
ScaleVals == {RNeg(Half), Zero, Half, One, Frac(3, 2), R(MaxCoord)}

ScaleRects == {<<x, y, w, h>> : x \in ScaleVals, y \in ScaleVals,
                                w \in ScaleVals, h \in ScaleVals}

InitPreset ==
    /\ NoSlide
    /\ slideDims \in SlideDimsSet
    /\ pc = "idle"
    /\ call = [fn |-> "none"]
    /\ ret = [raised |-> "none"]

CallIsValidPresetName ==
    /\ pc = "idle"
    /\ \E name \in ProbeNames :
        /\ pc' = "done"
        /\ call' = [fn |-> "_is_valid_preset_name", name |-> name]
        /\ ret' = Returned(_is_valid_preset_name(name))
        /\ UNCHANGED <<shapes, zorder, slideDims, tmpfile, shapes0, zorder0,
                       presentation, presentation0,
                       localfile, serverfiles, net>>

CallParsePreset ==
    /\ pc = "idle"
    /\ \E name \in ProbeNames :
        /\ pc' = "done"
        /\ call' = [fn |-> "_parse_preset", name |-> name]
        /\ ret' = IF ParseRaises(name)
                  THEN Raised("KeyError")
                  ELSE Returned(_parse_preset(name))
        /\ UNCHANGED <<shapes, zorder, slideDims, tmpfile, shapes0, zorder0,
                       presentation, presentation0,
                       localfile, serverfiles, net>>

CallScaleBbox ==
    /\ pc = "idle"
    /\ \E bbox \in ScaleRects :
        /\ pc' = "done"
        /\ call' = [fn |-> "_scale_bbox", bbox |-> bbox]
        /\ ret' = Returned(_scale_bbox(bbox))
        /\ UNCHANGED <<shapes, zorder, slideDims, tmpfile, shapes0, zorder0,
                       presentation, presentation0,
                       localfile, serverfiles, net>>

\* _add_figure's resolution of a preset name: validate, parse, scale
ResolveRaises(name) == ~_is_valid_preset_name(name)

ResolvePresetName(name) == _scale_bbox(_parse_preset(name))

CallResolvePresetName ==
    /\ pc = "idle"
    /\ \E name \in ProbeNames :
        /\ pc' = "done"
        /\ call' = [fn |-> "resolve", name |-> name]
        /\ ret' = IF ResolveRaises(name)
                  THEN Raised("ValueError: Unknown preset")
                  ELSE Returned(ResolvePresetName(name))
        /\ UNCHANGED <<shapes, zorder, slideDims, tmpfile, shapes0, zorder0,
                       presentation, presentation0,
                       localfile, serverfiles, net>>

NextPreset ==
    \/ CallIsValidPresetName
    \/ CallParsePreset
    \/ CallScaleBbox
    \/ CallResolvePresetName

SpecPreset == InitPreset /\ [][NextPreset]_vars

(***************************************************************************)
(* Claims about the geometry utilities (checked under SpecGeometry).       *)
(***************************************************************************)
\* a and b share no area: apart, or only touching, on some axis
NoOverlap(a, b) ==
    \/ RLe(RAdd(a[1], a[3]), b[1])
    \/ RLe(RAdd(b[1], b[3]), a[1])
    \/ RLe(RAdd(a[2], a[4]), b[2])
    \/ RLe(RAdd(b[2], b[4]), a[2])

\* a and b are strictly apart on the x axis and on the y axis
ApartOnBothAxes(a, b) ==
    /\ RLt(RAdd(a[1], a[3]), b[1]) \/ RLt(RAdd(b[1], b[3]), a[1])
    /\ RLt(RAdd(a[2], a[4]), b[2]) \/ RLt(RAdd(b[2], b[4]), a[2])

PositiveRect(r) == RLt(Zero, r[3]) /\ RLt(Zero, r[4])

ImageWider(bbox, w, h) == RLt(RMul(bbox[3], R(h)), RMul(bbox[4], R(w)))

SameAspect(bbox, w, h) == RMul(bbox[3], R(h)) = RMul(bbox[4], R(w))

Inside(inner, outer) ==
    /\ RLe(outer[1], inner[1])
    /\ RLe(outer[2], inner[2])
    /\ RLe(RAdd(inner[1], inner[3]), RAdd(outer[1], outer[3]))
    /\ RLe(RAdd(inner[2], inner[4]), RAdd(outer[2], outer[4]))

Compose(base, mod) ==
    <<RAdd(base[1], RMul(mod[1], base[3])),
      RAdd(base[2], RMul(mod[2], base[4])),
      RMul(base[3], mod[3]),
      RMul(base[4], mod[4])>>

\* name ends with the size suffix s, letter case ignored
EndsWithSize(name, s) == endswith(lower(name), lower(s))

\* s is the longest size suffix of the table that name ends with
IsLongestSize(name, s) ==
    /\ EndsWithSize(name, s)
    /\ \A s2 \in DOMAIN preset_sizes : EndsWithSize(name, s2) => Len(s2) <= Len(s)

\* C3: for every modifier m and size suffix s of the tables, _parse_preset of
\* m+s in any letter case returns sizes[s] composed with modifiers[m], where
\* s is the longest size suffix the name ends with: a name ending in XXL uses
\* the XXL entry; TopLeftXL gives [0.0415, 0.049, 0.4585, 0.444].
C3_ResolvePreset ==
    (pc = "done" /\ call.fn = "_parse_preset")
    => /\ \A m \in DOMAIN preset_modifiers, s \in DOMAIN preset_sizes :
            lower(call.name) = lower(m \o s)
            => /\ ret.raised = "none"
               /\ IsLongestSize(call.name, s)
               /\ ret.value = Compose(preset_sizes[s], preset_modifiers[m])
       /\ (EndsWithSize(call.name, <<"X", "X", "L">>) /\ ret.raised = "none")
            => \E m \in DOMAIN preset_modifiers :
                  /\ lower(call.name) = lower(m \o <<"X", "X", "L">>)
                  /\ ret.value =
                        Compose(preset_sizes[<<"X", "X", "L">>], preset_modifiers[m])
       /\ call.name = <<"T", "o", "p", "L", "e", "f", "t", "X", "L">>
            => ret = Returned(<<Frac(415, 10000), Frac(49, 1000),
                                Frac(4585, 10000), Frac(444, 1000)>>)

\* C3 witness: a modifier with the suffix XXL, not all in one letter case,
\* has been resolved with the XXL entry of the size table
C3_Witness ==
    /\ pc = "done"
    /\ call.fn = "_parse_preset"
    /\ call.name \notin {lower(call.name), upper(call.name)}
    /\ lower(call.name) = <<"r", "i", "g", "h", "t", "x", "x", "l">>
    /\ ret = Returned(<<Half, Zero, Half, One>>)

\* name is a base preset or a modifier followed by a size suffix, letter
\* case ignored
IsTableName(name) ==
    \/ \E b \in DOMAIN presets : lower(name) = lower(b)
    \/ \E m \in DOMAIN preset_modifiers, s \in DOMAIN preset_sizes :
          lower(name) = lower(m) \o lower(s)

\* C4: _is_valid_preset_name(name) is true exactly when name, letter case
\* ignored, is a base preset (center, full) or a modifier followed by a size
\* suffix; it accepts center, full, bottomrightL and 233 and rejects banana,
\* the empty string and a bare size suffix.
C4_IsValidPresetName ==
    (pc = "done" /\ call.fn = "_is_valid_preset_name")
    => /\ ret.raised = "none"
       /\ ret.value = IsTableName(call.name)
       /\ call.name \in { <<"c", "e", "n", "t", "e", "r">>,
                          <<"f", "u", "l", "l">>,
                          <<"b", "o", "t", "t", "o", "m", "r", "i", "g", "h", "t", "L">>,
                          <<"2", "3", "3">> }
            => ret.value = TRUE
       /\ call.name \in { <<"b", "a", "n", "a", "n", "a">>, <<>>,
                          <<"L">>, <<"X", "L">>, <<"X", "X", "L">> }
            => ret.value = FALSE

\* C4 witness: bottomrightL, written with its capital L, has been accepted
C4_Witness ==
    /\ pc = "done"
    /\ call.fn = "_is_valid_preset_name"
    /\ call.name = <<"b", "o", "t", "t", "o", "m", "r", "i", "g", "h", "t", "L">>
    /\ ret = Returned(TRUE)

\* 0 <= x <= 1 for a number x = <<n, d>> in lowest terms
InUnit(x) == 0 <= x[1] /\ x[1] <= x[2]

\* C5: _scale_bbox(rect) multiplies x and width by the slide width and y and
\* height by the slide height when all four components lie in [0, 1], and
\* returns rect unchanged otherwise; so the preset "full" on a slide of
\* 9144000 x 6858000 resolves to [0, 0, 9144000, 6858000].
C5_ScaleToSlide ==
    /\ (pc = "done" /\ call.fn = "_scale_bbox")
        => LET b == call.bbox
           IN  ret = Returned(
                   IF \A i \in 1..4 : InUnit(b[i])
                   THEN <<RMul(b[1], R(slideDims[1])), RMul(b[2], R(slideDims[2])),
                          RMul(b[3], R(slideDims[1])), RMul(b[4], R(slideDims[2]))>>
                   ELSE b)
    /\ (pc = "done" /\ call.fn = "resolve"
            /\ lower(call.name) = <<"f", "u", "l", "l">>
            /\ slideDims = <<9144000, 6858000>>)
        => ret = Returned(Rect(0, 0, 9144000, 6858000))

\* C5 witness: the preset full has been resolved on the 9144000 x 6858000
\* slide to the whole slide
C5_Witness ==
    /\ pc = "done"
    /\ call.fn = "resolve"
    /\ call.name = <<"f", "u", "l", "l">>
    /\ slideDims = <<9144000, 6858000>>
    /\ ret = Returned(Rect(0, 0, 9144000, 6858000))

(***************************************************************************)
(* The slide.  A shape is a record                                         *)
(*   [id, Type, phType, ContainedType, hasTextFrame, Text,                 *)
(*    Left, Top, Width, Height]                                            *)
(* with Type and ContainedType a name of msoShapeType and phType a name of *)
(* ppPlaceholderType ("none" for a shape that is no placeholder).  The     *)
(* slide is the sequence shapes (the order of Shapes.Item) and the         *)
(* sequence zorder of shape ids, back-most first.                          *)
(***************************************************************************)
_TEMPTEXT == "--TO-BE-REMOVED--"

pp_titles == {"ppPlaceholderTitle", "ppPlaceholderSubtitle", "ppPlaceholderBody"}

pp_pictures == {"ppPlaceholderObject", "ppPlaceholderBitmap", "ppPlaceholderPicture"}

\* an argument that is None, or the value v
None == <<>>

Some(v) == <<v>>

\* [item.Left, item.Top, item.Width, item.Height]
RectOf(s) == <<s.Left, s.Top, s.Width, s.Height>>

Ids(S) == {S[i].id : i \in 1..Len(S)}

ShapeById(S, id) == S[CHOOSE i \in 1..Len(S) : S[i].id = id]

\* shape.ZOrderPosition
ZOrderPosition(Z, id) == CHOOSE i \in 1..Len(Z) : Z[i] = id

\* the sequence s without the elements of the set ids
RemoveIds(s, ids) == SelectSeq(s, LAMBDA x : x \notin ids)

\* the shapes S without the shapes whose id is in ids
RemoveShapes(S, ids) == SelectSeq(S, LAMBDA x : x.id \notin ids)

IsPlaceholder(s) == s.Type = "msoPlaceholder"

\* _shapes(Slide)
_shapes(S) == S

\* _placeholders(Slide)
_placeholders(S) == SelectSeq(_shapes(S), IsPlaceholder)

\* _has_textframe(obj)
_has_textframe(obj) == obj.hasTextFrame

\* _is_placeholder_empty(obj)
_is_placeholder_empty(obj) ==
    IF obj.ContainedType = "msoAutoShape"
    THEN IF _has_textframe(obj) THEN obj.Text = "" ELSE TRUE
    ELSE FALSE

IsPicturePlaceholder(p) == p.phType \in pp_pictures

\* _placeholders_pictures(Slide, empty)
_placeholders_pictures(S, empty) ==
    LET pics == SelectSeq(_placeholders(S), IsPicturePlaceholder)
    IN  IF empty THEN SelectSeq(pics, _is_placeholder_empty) ELSE pics

IsPictureShape(s) ==
    \/ s.Type = "msoPicture"
    \/ /\ s.Type = "msoPlaceholder"
       /\ s.phType \in pp_pictures
       /\ ~_is_placeholder_empty(s)

\* _pictures(Slide)
_pictures(S) == SelectSeq(_shapes(S), IsPictureShape)

\* _empty_placeholders(Slide)
_empty_placeholders(S) == SelectSeq(_placeholders(S), _is_placeholder_empty)

IsFillable(p) == p.phType \notin pp_titles /\ _has_textframe(p)

\* the list that _fill_empty_placeholders(Slide) returns, as shape ids
FilledItems(S) ==
    LET items == SelectSeq(_empty_placeholders(S), IsFillable)
    IN  [i \in 1..Len(items) |-> items[i].id]

\* the shapes with TextFrame.TextRange.Text = text set on the shapes ids
SetText(S, ids, text) ==
    [i \in 1..Len(S) |-> IF S[i].id \in ids THEN [S[i] EXCEPT !.Text = text] ELSE S[i]]

\* the slide after _fill_empty_placeholders(Slide)
_fill_empty_placeholders(S) ==
    SetText(S, {FilledItems(S)[i] : i \in 1..Len(FilledItems(S))}, _TEMPTEXT)

\* _revert_filled_placeholders that leaves the text
_revert_filled_placeholders_none(S, items) == S

\* the slide after _revert_filled_placeholders(items)
_revert_filled_placeholders(S, items) ==
    SetText(S, {items[i] : i \in 1..Len(items)}, "")

(***************************************************************************)
(* The automation host.  What PowerPoint does is not in the repository;    *)
(* it is modelled after what the code says it relies on:                   *)
(*  - Delete() of a placeholder that holds a picture brings the empty      *)
(*    placeholder back ("when the figure will be deleted from the slide,   *)
(*    it will appear again"); Delete() of any other shape removes it;      *)
(*  - AddPicture puts the picture into the first empty placeholder for     *)
(*    pictures when there is one (its rectangle is then the requested one  *)
(*    or the placeholder's own: the host decides), and adds a new shape    *)
(*    in front of all others when there is none;                           *)
(*  - ZOrder(msoSendBackward) swaps the shape with the one behind it.      *)
(***************************************************************************)
HoldsPicture(s) == s.Type = "msoPlaceholder" /\ s.ContainedType = "msoPicture"

\* <<shapes, zorder>> after shape.Delete()
HostDelete(S, Z, id) ==
    IF HoldsPicture(ShapeById(S, id))
    THEN << [i \in 1..Len(S) |->
                IF S[i].id = id
                THEN [S[i] EXCEPT !.ContainedType = "msoAutoShape", !.Text = ""]
                ELSE S[i]],
            Z >>
    ELSE << RemoveShapes(S, {id}), RemoveIds(Z, {id}) >>

\* the slide has a placeholder that AddPicture fills
HostAbsorbs(S) == Len(_placeholders_pictures(S, TRUE)) > 0

\* an id no shape of the slide had when the call started
FreshId ==
    LET ids == Ids(shapes0) \cup {0}
    IN  1 + (CHOOSE m \in ids : \A k \in ids : k <= m)

\* <<shapes, zorder, id of the shape returned>> after Shapes.AddPicture
HostAddPicture(S, Z, bbox, keepsRect) ==
    IF HostAbsorbs(S)
    THEN LET ph == _placeholders_pictures(S, TRUE)[1]
             r  == IF keepsRect THEN bbox ELSE RectOf(ph)
         IN  << [i \in 1..Len(S) |->
                    IF S[i].id = ph.id
                    THEN [S[i] EXCEPT !.ContainedType = "msoPicture",
                                      !.Left = r[1], !.Top = r[2],
                                      !.Width = r[3], !.Height = r[4]]
                    ELSE S[i]],
                Z, ph.id >>
    ELSE << Append(S, [id |-> FreshId, Type |-> "msoPicture", phType |-> "none",
                       ContainedType |-> "none", hasTextFrame |-> FALSE,
                       Text |-> "", Left |-> bbox[1], Top |-> bbox[2],
                       Width |-> bbox[3], Height |-> bbox[4]]),
            Append(Z, FreshId), FreshId >>

\* the z-order after shape.ZOrder(msoSendBackward)
HostSendBackward(Z, id) ==
    LET i == ZOrderPosition(Z, id)
    IN  IF i = 1 THEN Z
        ELSE [Z EXCEPT ![i - 1] = Z[i], ![i] = Z[i - 1]]

(***************************************************************************)
(* _add_figure, step by step.  Its arguments are the record                *)
(*   a = [bbox, keep_aspect, replace, delete_placeholders,                 *)
(*        target_z_order, delete, w, h]                                    *)
(* where bbox is [kind |-> "None"], [kind |-> "str", name |-> ...] or      *)
(* [kind |-> "list", rect |-> ...], and w, h are the size of the image     *)
(* (given by the caller or read from the current figure).                  *)
(***************************************************************************)
RECURSIVE DeleteAll(_, _, _)
\* <<shapes, zorder>> after p.delete() for each p of the list ids, in turn
DeleteAll(S, Z, ids) ==
    IF ids = <<>> THEN <<S, Z>>
    ELSE LET r == HostDelete(S, Z, Head(ids))
         IN  DeleteAll(r[1], r[2], Tail(ids))

\* IsNoTitle that takes no placeholder for a title
IsNoTitle_any(p) == TRUE


IsNoTitle(p) == p.phType \notin pp_titles

\* the placeholders _delete_empty_placeholders deletes, in its order:
\* _empty_placeholders(Slide)[::-1] without the titles
DeletedPlaceholders(S) ==
    LET e == SelectSeq(_empty_placeholders(S), IsNoTitle)
    IN  [i \in 1..Len(e) |-> e[Len(e) + 1 - i].id]

\* <<shapes, zorder>> after _delete_empty_placeholders(Slide)
_delete_empty_placeholders(S, Z) == DeleteAll(S, Z, DeletedPlaceholders(S))

\* UsePlaceholder when no placeholder is ever used
UsePlaceholder_never(S, bbox) == FALSE

\* lines 491-501: the first empty placeholder for pictures is used
UsePlaceholder(S, bbox) ==
    bbox.kind = "None" /\ Len(_placeholders_pictures(S, TRUE)) > 0

\* DefaultPreset with another preset
DefaultPreset_full == <<"f", "u", "l", "l">>

\* line 501: the preset used when no placeholder is found
DefaultPreset == <<"C", "e", "n", "t", "e", "r">>

\* BboxOrPlaceholder with the last empty placeholder for pictures
BboxOrPlaceholder_last(S, bbox) ==
    IF bbox.kind = "None"
    THEN IF Len(_placeholders_pictures(S, TRUE)) > 0
         THEN [kind |-> "list",
               rect |-> RectOf(_placeholders_pictures(S, TRUE)[
                                   Len(_placeholders_pictures(S, TRUE))])]
         ELSE [kind |-> "str", name |-> DefaultPreset]
    ELSE bbox

\* lines 492-501: bbox after the search for a placeholder
BboxOrPlaceholder(S, bbox) ==
    IF bbox.kind = "None"
    THEN IF Len(_placeholders_pictures(S, TRUE)) > 0
         THEN [kind |-> "list", rect |-> RectOf(_placeholders_pictures(S, TRUE)[1])]
         ELSE [kind |-> "str", name |-> DefaultPreset]
    ELSE bbox

\* lines 502-504: raise ValueError('Unknown preset')
UnknownPreset(b) == b.kind = "str" /\ ~_is_valid_preset_name(b.name)

\* lines 502-506: the bbox in slide units
TargetBbox(b) == _scale_bbox(IF b.kind = "str" THEN _parse_preset(b.name) ELSE b.rect)

\* line 511: the areas of the pictures, in the order of pics
Areas(bbox, pics) ==
    [i \in 1..Len(pics) |-> _intersection_area(bbox, RectOf(pics[i]))]

\* lines 513-515: the index in pics of the last element of the list sorted
\* by area (the sort is stable: of equal areas the later picture is last)
LastSorted(areas) ==
    CHOOSE i \in 1..Len(areas) :
        /\ \A j \in 1..Len(areas) : RLe(areas[j], areas[i])
        /\ \A j \in (i + 1)..Len(areas) : RLt(areas[j], areas[i])

\* line 518: area > 0.1
OverThreshold_inclusive(area) == RLe(Frac(1, 10), area)

OverThreshold(area) == RLt(Frac(1, 10), area)

\* ReplacedIndex that finds no picture to replace
ReplacedIndex_never(replace, bbox, pics) == 0

\* lines 508-525: 0 when nothing is replaced, else the index in pics of the
\* picture that is replaced
ReplacedIndex(replace, bbox, pics) ==
    IF replace /\ Len(pics) > 0
    THEN LET areas == Areas(bbox, pics)
             k == LastSorted(areas)
         IN  IF OverThreshold(areas[k]) THEN k ELSE 0
    ELSE 0

RECURSIVE SendBackwardLoop(_, _, _)
\* lines 541-542: while shape.ZOrderPosition > target_z_order: send backward
SendBackwardLoop(Z, id, target) ==
    IF ZOrderPosition(Z, id) > target
    THEN SendBackwardLoop(HostSendBackward(Z, id), id, target)
    ELSE Z

\* lines 540-542: the z-order after the adjustment
AdjustZOrder(Z, id, target_z_order) ==
    IF target_z_order # None /\ target_z_order[1] > 0
    THEN SendBackwardLoop(Z, id, target_z_order[1])
    ELSE Z

\* BboxNotRespected that compares Left only
BboxNotRespected_left(bbox, filled_bbox) ==
    RLt(Frac(1, 10), RAbs(RSub(bbox[1], filled_bbox[1])))

\* line 546: np.max(np.abs(np.array(bbox) - np.array(filled_bbox))) > 0.1
BboxNotRespected(bbox, filled_bbox) ==
    \E i \in 1..4 : RLt(Frac(1, 10), RAbs(RSub(bbox[i], filled_bbox[i])))

\* what a call has done so far, when it raises
RaisedWith(e, S, Z) ==
    [shapes |-> S, zorder |-> Z, tmpfile |-> TRUE, ret |-> Raised(e)]

\* lines 536-559: AddPicture and what follows it, on the slide <<S, Z>>
\* prepared by the steps before; did records those steps
InsertPicture(S, Z, a, host, filling, did) ==
    IF host.fails
    THEN [shapes |-> S, zorder |-> Z, tmpfile |-> TRUE,
          ret |-> [raised |-> "com_error"] @@ did]
    ELSE
    LET added == HostAddPicture(S, Z, did.bbox, host.keepsRect)
        shape == added[3]
        Z5 == AdjustZOrder(added[2], shape, did.target_z_order)
        filled_bbox == RectOf(ShapeById(added[1], shape))
    IN  [shapes |-> IF filling THEN _revert_filled_placeholders(added[1], did.filled)
                    ELSE added[1],
         zorder |-> Z5,
         tmpfile |-> ~a.delete,
         ret |-> [raised |-> "none", shape |-> shape, slide |-> S,
                  moves |-> ZOrderPosition(added[2], shape) - ZOrderPosition(Z5, shape),
                  filled_bbox |-> filled_bbox,
                  warned |-> BboxNotRespected(did.bbox, filled_bbox),
                  reverted |-> did.filled] @@ did]

\* lines 531-535: the empty placeholders are deleted, or filled with the
\* temporary text, before the picture is inserted
PreparePlaceholders(S, Z, a, host, deleting, filling, did) ==
    InsertPicture(IF deleting THEN _delete_empty_placeholders(S, Z)[1]
                  ELSE IF filling THEN _fill_empty_placeholders(S) ELSE S,
                  IF deleting THEN _delete_empty_placeholders(S, Z)[2] ELSE Z,
                  a, host, filling,
                  [deleted |-> IF deleting THEN DeletedPlaceholders(S) ELSE <<>>,
                   filled |-> IF filling THEN FilledItems(S) ELSE <<>>] @@ did)

\* lines 516-535: the picture pics[k] is replaced (k = 0: none is), then
\* the aspect ratio is fitted
ReplacePicture(S, Z, a, host, use_placeholder, target, pics, k) ==
    LET replace == k # 0
        d == IF replace THEN HostDelete(S, Z, pics[k].id) ELSE <<S, Z>>
        bbox == IF replace THEN RectOf(pics[k]) ELSE target
    IN  PreparePlaceholders(d[1], d[2], a, host,
            ~use_placeholder /\ a.delete_placeholders,
            ~use_placeholder /\ ~a.delete_placeholders /\ ~replace,
            [use_placeholder |-> use_placeholder, target |-> target,
             replaced |-> IF replace THEN pics[k].id ELSE 0,
             target_z_order |-> IF replace THEN Some(ZOrderPosition(Z, pics[k].id))
                                ELSE a.target_z_order,
             bbox |-> IF a.keep_aspect THEN _keep_aspect(bbox, a.w, a.h) ELSE bbox])

\* lines 508-515: the pictures of the slide are ranked by their overlap with
\* the target
FindReplaced(S, Z, a, host, use_placeholder, target, pics) ==
    ReplacePicture(S, Z, a, host, use_placeholder, target, pics,
                   ReplacedIndex(a.replace, target, pics))

\* _add_figure(fname, ...) on the slide <<S, Z>>; host.fails: AddPicture
\* raises; host.keepsRect: a picture put into a placeholder keeps the
\* requested rectangle.  The result is the slide, the temporary file and
\* the record ret of what the call did:
\*   raised          "none" or the exception
\*   use_placeholder the local of that name
\*   target          bbox after _scale_bbox
\*   replaced        the id of the picture replaced, 0 if none
\*   target_z_order  the local of that name when the picture is inserted
\*   bbox            the rectangle passed to AddPicture
\*   deleted, filled the ids deleted by _delete_empty_placeholders, the
\*                   items of _fill_empty_placeholders
\*   slide           the shapes of the slide when AddPicture is called
\*   shape, moves, filled_bbox, warned, reverted   the shape returned, the
\*                   number of SendBackward calls, its rectangle, whether
\*                   the warning was issued, the items reverted
_add_figure(S, Z, a, host) ==
    LET b0 == BboxOrPlaceholder(S, a.bbox)
    IN  IF UnknownPreset(b0)
        THEN RaisedWith("ValueError: Unknown preset", S, Z)
        ELSE FindReplaced(S, Z, a, host, UsePlaceholder(S, a.bbox), TargetBbox(b0),
                          _pictures(S))

(***************************************************************************)
(* _replace_figure.  Its arguments are the record                          *)
(*   a = [pic_no, left_no, top_no, zorder_no, keep_zorder, keep_aspect,    *)
(*        delete_placeholders, w, h]                                       *)
(* with each of the four selectors None or Some(n).                        *)
(***************************************************************************)
\* SelectorsGiven without zorder_no
SelectorsGiven_nozorder(a) ==
    Cardinality({s \in {"pic_no", "left_no", "top_no"} : a[s] # None})

\* lines 631-632: how many selectors are not None
SelectorsGiven(a) ==
    Cardinality({s \in {"pic_no", "left_no", "top_no", "zorder_no"} : a[s] # None})

\* lines 634-649: the number no that selects
SelectorNo(a) ==
    IF a.pic_no # None THEN a.pic_no[1]
    ELSE IF a.left_no # None THEN a.left_no[1]
    ELSE IF a.top_no # None THEN a.top_no[1]
    ELSE IF a.zorder_no # None THEN a.zorder_no[1]
    ELSE 1

\* lines 638-649: the list pos, one key for each element of pics
SelectorPos(a, pics, Z) ==
    LET n == Len(pics)
    IN  IF a.pic_no # None \/ SelectorsGiven(a) = 0
        THEN [i \in 1..n |-> R(i - 1)]
        ELSE IF a.left_no # None THEN [i \in 1..n |-> pics[i].Left]
        ELSE IF a.top_no # None THEN [i \in 1..n |-> pics[i].Top]
        ELSE [i \in 1..n |-> R(ZOrderPosition(Z, pics[n + 1 - i].id))]

\* line 654: the index in pics of the element at place r (from 1) of
\* sorted(zip(pos, pics), key=pos); the sort is stable
SortedAt(pos, r) ==
    CHOOSE i \in 1..Len(pos) :
        Cardinality({j \in 1..Len(pos) :
                        RLt(pos[j], pos[i]) \/ (pos[j] = pos[i] /\ j < i)}) = r - 1

\* SelectedIndex with a negative no counted from the start
SelectedIndex_fromStart(pos, no) ==
    IF no < 0 THEN SortedAt(pos, -no) ELSE SortedAt(pos, no)

\* lines 655-658: the index in pics of pos_pic[no] (no < 0) or pos_pic[no-1]
SelectedIndex(pos, no) ==
    IF no < 0 THEN SortedAt(pos, Len(pos) + no + 1) ELSE SortedAt(pos, no)

\* ReplaceSelected without pic.Delete()
ReplaceSelected_kept(S, Z, a, host, pic) ==
    LET r == _add_figure(S, Z,
                         [bbox |-> [kind |-> "list", rect |-> RectOf(pic)],
                          keep_aspect |-> a.keep_aspect,
                          replace |-> FALSE,
                          delete_placeholders |-> a.delete_placeholders,
                          target_z_order |-> IF a.keep_zorder
                                             THEN Some(ZOrderPosition(Z, pic.id))
                                             ELSE None,
                          delete |-> TRUE, w |-> a.w, h |-> a.h],
                         host)
    IN  [shapes |-> r.shapes, zorder |-> r.zorder, tmpfile |-> r.tmpfile,
         ret |-> [selected |-> pic.id, pos |-> RectOf(pic),
                  zorder |-> ZOrderPosition(Z, pic.id)] @@ r.ret]

\* lines 660-670: the picture pic is deleted and the new one is added at
\* its rectangle
ReplaceSelected(S, Z, a, host, pic) ==
    LET r == _add_figure(HostDelete(S, Z, pic.id)[1], HostDelete(S, Z, pic.id)[2],
                         [bbox |-> [kind |-> "list", rect |-> RectOf(pic)],
                          keep_aspect |-> a.keep_aspect,
                          replace |-> FALSE,
                          delete_placeholders |-> a.delete_placeholders,
                          target_z_order |-> IF a.keep_zorder
                                             THEN Some(ZOrderPosition(Z, pic.id))
                                             ELSE None,
                          delete |-> TRUE, w |-> a.w, h |-> a.h],
                         host)
    IN  [shapes |-> r.shapes, zorder |-> r.zorder, tmpfile |-> r.tmpfile,
         ret |-> [selected |-> pic.id, pos |-> RectOf(pic),
                  zorder |-> ZOrderPosition(Z, pic.id)] @@ r.ret]

\* _replace_figure with the range checked after the last picture is deleted
_replace_figure_late(S, Z, a, host) ==
    LET pics == _pictures(S)
        no == SelectorNo(a)
    IN  IF SelectorsGiven(a) > 1
        THEN RaisedWith("ValueError: Only one among pic_no, left_no, top_no could be used",
                        S, Z)
        ELSE IF Len(pics) < no \/ no = 0
        THEN IF Len(pics) = 0
             THEN RaisedWith("ValueError: Picture index is out of range", S, Z)
             ELSE RaisedWith("ValueError: Picture index is out of range",
                             HostDelete(S, Z, pics[Len(pics)].id)[1],
                             HostDelete(S, Z, pics[Len(pics)].id)[2])
        ELSE IF no < -Len(pics)
        THEN RaisedWith("IndexError: list index out of range", S, Z)
        ELSE ReplaceSelected(S, Z, a, host,
                             pics[SelectedIndex(SelectorPos(a, pics, Z), no)])

\* _replace_figure(fname, ...) on the slide <<S, Z>>
_replace_figure(S, Z, a, host) ==
    LET pics == _pictures(S)
        no == SelectorNo(a)
    IN  IF SelectorsGiven(a) > 1
        THEN RaisedWith("ValueError: Only one among pic_no, left_no, top_no could be used",
                        S, Z)
        ELSE IF Len(pics) < no \/ no = 0
        THEN RaisedWith("ValueError: Picture index is out of range", S, Z)
        ELSE IF no < -Len(pics)
        THEN RaisedWith("IndexError: list index out of range", S, Z)
        ELSE ReplaceSelected(S, Z, a, host,
                             pics[SelectedIndex(SelectorPos(a, pics, Z), no)])

(***************************************************************************)
(* The slides a call may find open, and the arguments of a call.           *)
(***************************************************************************)
\* a picture shape
Picture(id, rect) ==
    [id |-> id, Type |-> "msoPicture", phType |-> "none", ContainedType |-> "none",
     hasTextFrame |-> FALSE, Text |-> "",
     Left |-> rect[1], Top |-> rect[2], Width |-> rect[3], Height |-> rect[4]]

\* a text box: neither a picture nor a placeholder
TextBox(id, rect) ==
    [id |-> id, Type |-> "msoTextBox", phType |-> "none", ContainedType |-> "none",
     hasTextFrame |-> TRUE, Text |-> "text",
     Left |-> rect[1], Top |-> rect[2], Width |-> rect[3], Height |-> rect[4]]

\* a placeholder of kind phType holding contained, with the text given
Placeholder(id, phType, contained, hasTextFrame, text, rect) ==
    [id |-> id, Type |-> "msoPlaceholder", phType |-> phType,
     ContainedType |-> contained, hasTextFrame |-> hasTextFrame, Text |-> text,
     Left |-> rect[1], Top |-> rect[2], Width |-> rect[3], Height |-> rect[4]]

\* the rectangle a caller asks for in the overlap cases
AskedRect == Rect(0, 0, 100, 100)

\* the rectangle of the placeholder for pictures
PlaceholderRect == Rect(100, 100, 200, 150)

\* Slide.Shapes of the slides, in enumeration order, ids 1, 2, ...
InitSlides ==
    { <<>>,
      \* AskedRect covers 10% of the picture, the picture 50% of AskedRect
      << Picture(1, Rect(50, 0, 500, 100)) >>,
      \* AskedRect covers 100% of the picture, the picture 10% of AskedRect
      << Picture(1, Rect(0, 0, 10, 100)) >>,
      \* AskedRect covers 5% of the picture, the picture 15% of AskedRect
      << Picture(1, Rect(85, 0, 300, 100)) >>,
      \* AskedRect covers 10% of the first and 15% of the second picture
      << Picture(1, Rect(90, 0, 100, 100)), Picture(2, Rect(85, 0, 100, 100)) >>,
      \* AskedRect covers 15% of both pictures
      << Picture(1, Rect(85, 0, 100, 100)), TextBox(2, Rect(0, 0, 720, 50)),
         Picture(3, Rect(0, 85, 100, 100)) >>,
      \* a layout with a title, a placeholder for a chart and two for
      \* pictures
      << Placeholder(1, "ppPlaceholderTitle", "msoAutoShape", TRUE, "",
                     Rect(30, 20, 660, 60)),
         Placeholder(2, "ppPlaceholderChart", "msoAutoShape", TRUE, "",
                     Rect(400, 100, 200, 150)),
         Placeholder(3, "ppPlaceholderPicture", "msoAutoShape", TRUE, "",
                     PlaceholderRect),
         Placeholder(4, "ppPlaceholderObject", "msoAutoShape", TRUE, "",
                     Rect(400, 300, 200, 150)) >>,
      \* a picture over the empty placeholder for pictures
      << Placeholder(1, "ppPlaceholderObject", "msoAutoShape", FALSE, "",
                     PlaceholderRect),
         Picture(2, Rect(150, 100, 200, 150)),
         Placeholder(3, "ppPlaceholderBody", "msoAutoShape", TRUE, "",
                     Rect(400, 300, 200, 150)) >>,
      \* a placeholder that holds a picture, a written title, an empty table
      << Placeholder(1, "ppPlaceholderTitle", "msoAutoShape", TRUE, "text",
                     Rect(30, 20, 660, 60)),
         Placeholder(2, "ppPlaceholderTable", "msoAutoShape", TRUE, "",
                     Rect(400, 100, 200, 150)),
         Placeholder(3, "ppPlaceholderPicture", "msoPicture", TRUE, "",
                     Rect(0, 0, 100, 150)) >>,
      \* shapes smaller than a point: every component of the rectangles is
      \* in [0, 1]
      << Placeholder(1, "ppPlaceholderBitmap", "msoAutoShape", TRUE, "",
                     <<Zero, Zero, Half, Half>>),
         Picture(2, <<Half, Half, Half, Half>>) >>,
      \* three pictures: by left 2, 3, 1; by top 3, 1, 2
      << Picture(1, Rect(300, 200, 100, 100)), Picture(2, Rect(100, 300, 100, 100)),
         Picture(3, Rect(200, 100, 100, 100)) >>,
      \* an empty placeholder for pictures that has no text frame, and an
      \* empty placeholder for a chart
      << Placeholder(1, "ppPlaceholderObject", "msoAutoShape", FALSE, "",
                     PlaceholderRect),
         Placeholder(2, "ppPlaceholderChart", "msoAutoShape", TRUE, "",
                     Rect(400, 100, 200, 150)) >>
    }

RECURSIVE Perms(_)
\* the sequences that list every element of the set s once
Perms(s) ==
    IF s = {} THEN {<<>>}
    ELSE UNION {{<<x>> \o q : q \in Perms(s \ {x})} : x \in s}

\* bbox of add_figure: None, a preset name, a list
BboxArgs ==
    { [kind |-> "None"],
      [kind |-> "str", name |-> <<"C", "e", "n", "t", "e", "r">>],
      [kind |-> "str", name |-> <<"f", "u", "l", "l">>],
      [kind |-> "str", name |-> <<"b", "a", "n", "a", "n", "a">>],
      [kind |-> "list", rect |-> AskedRect],
      [kind |-> "list", rect |-> <<Zero, Zero, Half, Half>>] }

\* the image: square, wide, tall (the size is not read when keep_aspect is
\* False)
ImageSizes(keep_aspect) ==
    IF keep_aspect THEN {<<1, 1>>, <<MaxImg, 1>>, <<1, MaxImg>>} ELSE {<<1, 1>>}

\* target_z_order of add_figure
ZOrderArgs == {None, Some(1)}

\* what the host may do in a call on the slide S: AddPicture raises, or
\* adds the picture; a picture that lands in a placeholder for pictures
\* keeps the requested rectangle or takes the placeholder's
HostChoices(S) ==
    {[fails |-> TRUE, keepsRect |-> TRUE], [fails |-> FALSE, keepsRect |-> TRUE]}
    \cup IF \E i \in 1..Len(S) : S[i].phType \in pp_pictures
         THEN {[fails |-> FALSE, keepsRect |-> FALSE]}
         ELSE {}

\* the numbers a selector of replace_figure is given: -MaxOrd..MaxOrd
MaxOrd == 3

\* the selectors: one given, none given, several given
SelectorArgs ==
    LET names == {"pic_no", "left_no", "top_no", "zorder_no"}
        sel(given, n) == [s \in names |-> IF s \in given THEN Some(n) ELSE None]
    IN  {sel({s}, n) : s \in names, n \in (-MaxOrd)..MaxOrd}
        \cup {sel(g, 1) : g \in (SUBSET names) \ {{s} : s \in names}}

Init ==
    /\ NoRemote
    /\ shapes \in InitSlides
    /\ zorder \in Perms(Ids(shapes))
    /\ slideDims = <<720, 540>>
    /\ tmpfile = TRUE
    /\ pc = "idle"
    /\ call = [fn |-> "none"]
    /\ ret = [raised |-> "none"]
    /\ shapes0 = shapes
    /\ zorder0 = zorder
    /\ presentation = OnePresentation
    /\ presentation0 = OnePresentation

\* the arguments of _add_figure
AddFigureArgs ==
    {[bbox |-> bbox, keep_aspect |-> keep_aspect, replace |-> replace,
      delete_placeholders |-> delete_placeholders,
      target_z_order |-> target_z_order, delete |-> TRUE, w |-> wh[1], h |-> wh[2]] :
        bbox \in BboxArgs, keep_aspect \in BOOLEAN, replace \in BOOLEAN,
        delete_placeholders \in BOOLEAN, target_z_order \in ZOrderArgs,
        wh \in ImageSizes(TRUE)}

\* the arguments of _replace_figure
ReplaceFigureArgs ==
    {sel @@ [keep_zorder |-> keep_zorder, keep_aspect |-> keep_aspect,
             delete_placeholders |-> delete_placeholders, w |-> wh[1], h |-> wh[2]] :
        sel \in SelectorArgs, keep_zorder \in BOOLEAN, keep_aspect \in BOOLEAN,
        delete_placeholders \in BOOLEAN, wh \in ImageSizes(TRUE)}

\* add_figure / the relay's add_figure: the raster is saved, then _add_figure
AddFigure ==
    /\ pc = "idle"
    /\ \E a \in AddFigureArgs, host \in HostChoices(shapes) :
        /\ <<a.w, a.h>> \in ImageSizes(a.keep_aspect)
        /\ \E r \in {_add_figure(shapes, zorder, a, host)} :
            /\ pc' = "done"
            /\ call' = [fn |-> "_add_figure", host |-> host] @@ a
            /\ shapes' = r.shapes
            /\ zorder' = r.zorder
            /\ tmpfile' = r.tmpfile
            /\ ret' = r.ret
            /\ UNCHANGED <<slideDims, shapes0, zorder0, presentation, presentation0,
                           localfile, serverfiles, net>>

\* replace_figure / the relay's replace_figure
ReplaceFigure ==
    /\ pc = "idle"
    /\ \E a \in ReplaceFigureArgs, host \in HostChoices(shapes) :
        /\ <<a.w, a.h>> \in ImageSizes(a.keep_aspect)
        /\ \E r \in {_replace_figure(shapes, zorder, a, host)} :
            /\ pc' = "done"
            /\ call' = [fn |-> "_replace_figure", host |-> host] @@ a
            /\ shapes' = r.shapes
            /\ zorder' = r.zorder
            /\ tmpfile' = r.tmpfile
            /\ ret' = r.ret
            /\ UNCHANGED <<slideDims, shapes0, zorder0, presentation, presentation0,
                           localfile, serverfiles, net>>

Next == AddFigure \/ ReplaceFigure

Spec == Init /\ [][Next]_vars

(***************************************************************************)
(* Properties of add_figure with replace.                                  *)
(***************************************************************************)
\* a call of _add_figure has ended after it looked for a picture to replace
AddFigureDone ==
    /\ pc = "done"
    /\ call.fn = "_add_figure"
    /\ ret.raised # "ValueError: Unknown preset"

\* the pictures of the slide when the call started
pics0 == _pictures(shapes0)

\* the share of the area of the rectangle of that is covered by the
\* rectangle by
CoveredShare(of, by) == _intersection_area(by, of)

\* p has the greatest CoveredShare among the pictures, and is the last
\* picture that has it
IsBestCandidate(i) ==
    /\ \A j \in 1..Len(pics0) :
          RLe(CoveredShare(RectOf(pics0[j]), ret.target),
              CoveredShare(RectOf(pics0[i]), ret.target))
    /\ \A j \in (i + 1)..Len(pics0) :
          CoveredShare(RectOf(pics0[j]), ret.target)
            # CoveredShare(RectOf(pics0[i]), ret.target)

\* C6 as the specification words it: with replace=true, a picture that
\* covers exactly 10% of the area of the target bbox is not replaced, and
\* the only picture of a slide is replaced when it covers 15% of the area
\* of the target bbox.
C6_TenPercentOfTarget ==
    (AddFigureDone /\ call.replace) =>
        \A i \in 1..Len(pics0) :
            /\ CoveredShare(ret.target, RectOf(pics0[i])) = Frac(1, 10)
                  => ret.replaced # pics0[i].id
            /\ (Len(pics0) = 1
                  /\ CoveredShare(ret.target, RectOf(pics0[i])) = Frac(15, 100))
                  => ret.replaced = pics0[i].id

\* C6, amended: with replace=true, the picture replaced is the one of which
\* the target bbox covers the greatest share of the picture's own area (the
\* last of them in enumeration order), and it is replaced exactly when that
\* share is greater than 10%: a picture of which exactly 10% is covered is
\* never replaced, and one of which 15% is covered is replaced when no
\* other picture has a greater share, or the same share later in the
\* enumeration.
C6_TenPercentOfPicture ==
    (AddFigureDone /\ call.replace) =>
        \A i \in 1..Len(pics0) :
            /\ ret.replaced = pics0[i].id
                  <=> /\ IsBestCandidate(i)
                      /\ RLt(Frac(1, 10), CoveredShare(RectOf(pics0[i]), ret.target))
            /\ CoveredShare(RectOf(pics0[i]), ret.target) = Frac(1, 10)
                  => ret.replaced # pics0[i].id
            /\ (IsBestCandidate(i)
                  /\ CoveredShare(RectOf(pics0[i]), ret.target) = Frac(15, 100))
                  => ret.replaced = pics0[i].id

\* exactly 10% of the only picture is covered by the target, which the
\* picture covers by half: the picture is not replaced
C6_Witness ==
    /\ AddFigureDone
    /\ call.replace
    /\ ret.raised = "none"
    /\ Len(pics0) = 1
    /\ CoveredShare(RectOf(pics0[1]), ret.target) = Frac(1, 10)
    /\ CoveredShare(ret.target, RectOf(pics0[1])) = Half
    /\ ret.replaced = 0
    /\ Len(_pictures(shapes)) = 2

\* a call of _add_figure with replace=true that used no placeholder has
\* inserted its picture
ReplaceCallDone ==
    /\ AddFigureDone
    /\ call.replace
    /\ ret.raised = "none"
    /\ ~ret.use_placeholder

\* intersectionRatio(target, p) of the i-th picture
RatioOf(i) == _intersection_area(ret.target, RectOf(pics0[i]))

\* the i-th picture has the greatest ratio, and it exceeds 0.1
IsGreatestOverThreshold(i) ==
    /\ RLt(Frac(1, 10), RatioOf(i))
    /\ \A j \in 1..Len(pics0) : RLe(RatioOf(j), RatioOf(i))

\* the rectangle rect, aspect-fitted when keep_aspect
Fitted(rect) == IF call.keep_aspect THEN _keep_aspect(rect, call.w, call.h) ELSE rect

\* every picture but the one with the id is on the slide as it was
OtherPicturesKept(id) ==
    \A i \in 1..Len(pics0) :
        pics0[i].id # id => \E j \in 1..Len(shapes) : shapes[j] = pics0[i]

\* the parts of C7 that are about the pictures and the rectangle: a picture
\* of the greatest ratio is the one deleted when that ratio exceeds 0.1,
\* the new picture is asked at its rectangle (aspect-fitted when
\* keep_aspect); otherwise no picture is deleted and the new picture is
\* asked at the computed target (aspect-fitted when keep_aspect)
ReplacedOrInserted ==
    IF \E i \in 1..Len(pics0) : IsGreatestOverThreshold(i)
    THEN \E i \in 1..Len(pics0) :
            /\ IsGreatestOverThreshold(i)
            /\ ret.replaced = pics0[i].id
            /\ OtherPicturesKept(pics0[i].id)
            /\ ret.bbox = Fitted(RectOf(pics0[i]))
    ELSE /\ ret.replaced = 0
         /\ OtherPicturesKept(0)
         /\ ret.bbox = Fitted(ret.target)

\* the new picture has the z-order position the replaced picture had
AtReplacedZOrder ==
    ret.replaced # 0 =>
        ZOrderPosition(zorder, ret.shape) = ZOrderPosition(zorder0, ret.replaced)

\* C7: add_figure with replace=true and no placeholder used: if the
\* greatest intersection ratio of the target with a picture exceeds 0.1,
\* exactly that picture is deleted and the new picture is inserted at that
\* picture's rectangle (aspect-fitted when keep_aspect), at that picture's
\* z-order; otherwise no picture is deleted and the new picture is inserted
\* at the computed target.
C7_ReplaceInPlace ==
    ReplaceCallDone => (ReplacedOrInserted /\ AtReplacedZOrder)

\* the host put the new picture into a placeholder other than the replaced
\* shape
LandedInPlaceholder == ret.shape \in Ids(shapes0) \ {ret.replaced}

\* what holds of C7: the pictures and the rectangle are as it says, and the
\* z-order position is the replaced picture's when the call deleted no
\* empty placeholder and the new picture did not land in a placeholder
C7_ReplaceInPlaceNoneDeleted ==
    ReplaceCallDone =>
        /\ ReplacedOrInserted
        /\ (ret.deleted = <<>> /\ ~LandedInPlaceholder) => AtReplacedZOrder

\* a picture is replaced, an empty placeholder behind it is deleted, and
\* the new picture is in front of a shape the replaced picture was behind
C7_Witness ==
    /\ ReplaceCallDone
    /\ ret.replaced # 0
    /\ ret.deleted # <<>>
    /\ \E s \in Ids(shapes) \cap Ids(shapes0) :
          /\ ZOrderPosition(zorder0, ret.replaced) < ZOrderPosition(zorder0, s)
          /\ ZOrderPosition(zorder, s) < ZOrderPosition(zorder, ret.shape)

(***************************************************************************)
(* Properties of add_figure with bbox=None.                                *)
(***************************************************************************)
\* the empty placeholders for pictures of the slide when the call started
emptyPictures0 == _placeholders_pictures(shapes0, TRUE)

\* _add_figure was called with bbox=None on a slide that has an empty
\* placeholder for pictures, and has inserted its picture
PlaceholderCallDone ==
    /\ pc = "done"
    /\ call.fn = "_add_figure"
    /\ call.bbox.kind = "None"
    /\ Len(emptyPictures0) > 0
    /\ ret.raised = "none"

\* every component of the rectangle is in [0, 1]
AllInUnit(b) == \A i \in 1..4 : InUnit(b[i])

\* the rectangle b in slide units
ScaledIfUnit(b) ==
    IF AllInUnit(b)
    THEN <<RMul(b[1], R(slideDims[1])), RMul(b[2], R(slideDims[2])),
           RMul(b[3], R(slideDims[1])), RMul(b[4], R(slideDims[2]))>>
    ELSE b

\* C8 as the specification words it: add_figure with bbox=None on a slide
\* that has an empty placeholder for pictures (Object, Bitmap, Picture) asks
\* the host to insert the picture at exactly the rectangle of the first
\* such placeholder, for every option and every image size.
C8_AtPlaceholderRect ==
    PlaceholderCallDone => ret.bbox = RectOf(emptyPictures0[1])

\* C8, amended: add_figure with bbox=None on a slide that has an empty
\* placeholder for pictures takes the rectangle of the first such
\* placeholder (multiplied by the slide size when its four components all
\* lie in [0, 1]), or with replace=true the rectangle of the picture it
\* replaces, and asks the host to insert the picture at that rectangle,
\* aspect-fitted inside it when keep_aspect.  It is exactly the rectangle
\* of the first placeholder when keep_aspect is false, no picture is
\* replaced and the rectangle does not lie in [0, 1].
C8_AtPlaceholderRectFitted ==
    PlaceholderCallDone =>
        /\ ret.use_placeholder
        /\ ~call.replace => ret.replaced = 0
        /\ ret.bbox =
              Fitted(IF ret.replaced # 0
                     THEN RectOf(ShapeById(shapes0, ret.replaced))
                     ELSE ScaledIfUnit(RectOf(emptyPictures0[1])))
        /\ (~call.keep_aspect /\ ret.replaced = 0
                /\ ~AllInUnit(RectOf(emptyPictures0[1])))
              => ret.bbox = RectOf(emptyPictures0[1])

\* the picture is asked at the rectangle of the first of two empty
\* placeholders for pictures
C8_Witness ==
    /\ PlaceholderCallDone
    /\ Len(emptyPictures0) = 2
    /\ ~call.keep_aspect
    /\ ret.bbox = PlaceholderRect
    /\ ret.bbox # RectOf(emptyPictures0[2])
    /\ ret.shape = emptyPictures0[1].id

\* a call with bbox=None and replace=false has found an empty placeholder
\* for pictures
PlaceholderFound ==
    /\ pc = "done"
    /\ call.fn = "_add_figure"
    /\ call.bbox.kind = "None"
    /\ ~call.replace
    /\ Len(emptyPictures0) > 0

\* C9: add_figure with bbox=None and replace=false that finds an empty
\* placeholder for pictures deletes no placeholder and writes no text into
\* any placeholder, whatever delete_placeholders is: every other
\* placeholder of the slide is the same before and after (its kind, its
\* content, its text and its rectangle).
C9_OtherPlaceholdersUntouched ==
    PlaceholderFound =>
        /\ ret.deleted = <<>>
        /\ ret.filled = <<>>
        /\ \A i \in 1..Len(shapes0) :
              (IsPlaceholder(shapes0[i]) /\ shapes0[i].id # emptyPictures0[1].id)
                => \E j \in 1..Len(shapes) : shapes[j] = shapes0[i]

\* with delete_placeholders=True the picture went into the placeholder
\* and the empty placeholder for a chart is still on the slide
C9_Witness ==
    /\ PlaceholderFound
    /\ call.delete_placeholders
    /\ ret.raised = "none"
    /\ ret.shape = emptyPictures0[1].id
    /\ \E j \in 1..Len(shapes) :
          /\ shapes[j].phType = "ppPlaceholderChart"
          /\ _is_placeholder_empty(shapes[j])

(***************************************************************************)
(* Properties of replace_figure.                                           *)
(***************************************************************************)
ReplaceFigureDone == pc = "done" /\ call.fn = "_replace_figure"

\* the selectors the call was given
GivenSelectors == {s \in {"pic_no", "left_no", "top_no", "zorder_no"} : call[s] # None}

\* C10: replace_figure called with more than one of pic_no, left_no,
\* top_no, zorder_no fails with the ValueError of ambiguous selectors and
\* leaves the slide as it was; called with none it does what it does with
\* pic_no=1, which selects the first picture in enumeration order.
C10_SelectorExclusive ==
    ReplaceFigureDone =>
        /\ Cardinality(GivenSelectors) > 1 =>
              /\ ret = Raised("ValueError: Only one among pic_no, left_no, top_no could be used")
              /\ shapes = shapes0
              /\ zorder = zorder0
        /\ GivenSelectors = {} =>
              /\ LET r == _replace_figure(shapes0, zorder0,
                                          [call EXCEPT !.pic_no = Some(1)], call.host)
                 IN  /\ shapes = r.shapes
                     /\ zorder = r.zorder
                     /\ tmpfile = r.tmpfile
                     /\ ret = r.ret
              /\ Len(pics0) > 0 => ret.selected = pics0[1].id
              /\ Len(pics0) = 0 => ret = Raised("ValueError: Picture index is out of range")

\* pic_no and top_no are both given: the call has raised
C10_Witness ==
    /\ ReplaceFigureDone
    /\ GivenSelectors = {"pic_no", "top_no"}
    /\ Len(pics0) = 2
    /\ ret.raised = "ValueError: Only one among pic_no, left_no, top_no could be used"

\* one selector of the three is given, and a picture was selected
SelectedBy(s) ==
    /\ ReplaceFigureDone
    /\ GivenSelectors = {s}
    /\ "selected" \in DOMAIN ret

\* the picture selected by the call, as it was when the call started
selected0 == ShapeById(shapes0, ret.selected)

\* the picture the call selects when the selector s is n instead
SelectedWith(s, n) ==
    _replace_figure(shapes0, zorder0, [call EXCEPT ![s] = Some(n)], call.host).ret.selected

\* C11: with N pictures ordered by the chosen key (enumeration index, left,
\* top), the ordinal -k with 1 <= k <= N selects the picture the ordinal
\* N-k+1 selects; pic_no=-1 selects the last picture, left_no=-1 a
\* right-most one and top_no=-1 a lowest one.
C11_NegativeOrdinal ==
    \A s \in {"pic_no", "left_no", "top_no"} :
        (ReplaceFigureDone /\ GivenSelectors = {s} /\ call[s][1] < 0
            /\ -call[s][1] <= Len(pics0))
        => /\ "selected" \in DOMAIN ret
           /\ ret.selected = SelectedWith(s, Len(pics0) + call[s][1] + 1)
           /\ (call[s][1] = -1 /\ s = "pic_no")
                => ret.selected = pics0[Len(pics0)].id
           /\ (call[s][1] = -1 /\ s = "left_no")
                => \A i \in 1..Len(pics0) : RLe(pics0[i].Left, selected0.Left)
           /\ (call[s][1] = -1 /\ s = "top_no")
                => \A i \in 1..Len(pics0) : RLe(pics0[i].Top, selected0.Top)

\* left_no=-1 has selected the right-most of three pictures, which is the
\* first in enumeration order
C11_Witness ==
    /\ SelectedBy("left_no")
    /\ call.left_no = Some(-1)
    /\ Len(pics0) = 3
    /\ ret.selected = pics0[1].id
    /\ SelectedWith("left_no", 3) = pics0[1].id
    /\ \A i \in 2..3 : RLt(pics0[i].Left, selected0.Left)

\* the ordinal the call selects with: the one given, 1 when none is
ordinal == IF GivenSelectors = {} THEN 1 ELSE call[CHOOSE s \in GivenSelectors : TRUE][1]

\* at most one selector is given and its ordinal is 0, greater than the
\* number of pictures or less than minus that number
OutOfRangeCall ==
    /\ ReplaceFigureDone
    /\ Cardinality(GivenSelectors) <= 1
    /\ \/ ordinal = 0
       \/ ordinal > Len(pics0)
       \/ ordinal < -Len(pics0)

\* C12: with N pictures on the slide, replace_figure with an ordinal n = 0,
\* n > N or n < -N fails with the error of an index out of range, the same
\* in the three cases (ValueError('Picture index is out of range')), and
\* selects no picture.
C12_OutOfRange ==
    OutOfRangeCall => ret = Raised("ValueError: Picture index is out of range")

\* what holds of C12: n = 0 and n > N raise the ValueError, n < -N raises
\* the IndexError of the list; no picture is selected and the slide is as
\* it was
C12_OutOfRangeTwoKinds ==
    OutOfRangeCall =>
        /\ ret = IF ordinal < -Len(pics0)
                 THEN Raised("IndexError: list index out of range")
                 ELSE Raised("ValueError: Picture index is out of range")
        /\ shapes = shapes0
        /\ zorder = zorder0

\* pic_no=-3 on a slide with two pictures has raised the IndexError
C12_Witness ==
    /\ OutOfRangeCall
    /\ GivenSelectors = {"pic_no"}
    /\ call.pic_no = Some(-3)
    /\ Len(pics0) = 2
    /\ ret = Raised("IndexError: list index out of range")

(***************************************************************************)
(* Properties of the exits of add_figure and replace_figure.               *)
(***************************************************************************)
\* the exceptions the validation of the arguments raises
ValidationErrors ==
    {"ValueError: Unknown preset",
     "ValueError: Only one among pic_no, left_no, top_no could be used",
     "ValueError: Picture index is out of range",
     "IndexError: list index out of range"}

\* C13: when add_figure fails with the unknown preset (for any replace and
\* delete_placeholders) or replace_figure fails with the ambiguous selectors
\* or the index out of range, no shape of the slide has been deleted,
\* inserted, re-ordered or had its text changed.
C13_NoMutationBeforeError ==
    (pc = "done" /\ ret.raised \in ValidationErrors) =>
        /\ shapes = shapes0
        /\ zorder = zorder0

\* an unknown preset with replace and delete_placeholders set, on a slide
\* with a picture to replace and an empty placeholder to delete
C13_Witness ==
    /\ pc = "done"
    /\ call.fn = "_add_figure"
    /\ call.replace
    /\ call.delete_placeholders
    /\ ret = Raised("ValueError: Unknown preset")
    /\ Len(pics0) > 0
    /\ DeletedPlaceholders(shapes0) # <<>>
    /\ shapes = shapes0

\* C14: the temporary raster file handed to add_figure / replace_figure no
\* longer exists when the operation ends, on every exit: normal completion,
\* a validation error, or AddPicture raising.
C14_TempFileRemoved ==
    (pc = "done" /\ call.fn \in {"_add_figure", "_replace_figure"}) => ~tmpfile

\* what holds of C14: the file is removed exactly when the call returns
C14_TempFileRemovedOnReturn ==
    (pc = "done" /\ call.fn \in {"_add_figure", "_replace_figure"})
        => (tmpfile <=> ret.raised # "none")

\* AddPicture has raised and the temporary file is still there
C14_Witness ==
    /\ pc = "done"
    /\ call.fn = "_add_figure"
    /\ call.host.fails
    /\ ret.raised = "com_error"
    /\ tmpfile

(***************************************************************************)
(* Properties of a replace_figure that returned.                           *)
(***************************************************************************)
ReplaceFigureReturned == ReplaceFigureDone /\ ret.raised = "none"

\* C15: after a successful replace_figure with keep_aspect=False, the
\* rectangle of the new picture (the one passed to AddPicture) equals the
\* rectangle of the picture that was selected and deleted, for every
\* rectangle, including one whose four components all lie in [0, 1].
C15_SameRectangle ==
    (ReplaceFigureReturned /\ ~call.keep_aspect) => ret.bbox = ret.pos

\* what holds of C15: the rectangle is the selected picture's unless its
\* four components all lie in [0, 1]; then it is that rectangle multiplied
\* by the slide width and height
C15_SameRectangleUnlessUnit ==
    (ReplaceFigureReturned /\ ~call.keep_aspect) => ret.bbox = ScaledIfUnit(ret.pos)

\* the picture at [1/2, 1/2, 1/2, 1/2] is replaced by one at
\* [360, 270, 360, 270] on the slide of 720 x 540
C15_Witness ==
    /\ ReplaceFigureReturned
    /\ ~call.keep_aspect
    /\ ret.pos = <<Half, Half, Half, Half>>
    /\ ret.bbox = Rect(360, 270, 360, 270)
    /\ \E i \in 1..Len(shapes) :
          shapes[i].id = ret.shape /\ RectOf(shapes[i]) = Rect(360, 270, 360, 270)

\* C16: after a successful replace_figure with keep_zorder=True, the z-order
\* position of the new picture equals the position the replaced picture had
\* before it was deleted, also when empty placeholders are deleted in the
\* same call, wherever they sat in the stacking order.
C16_SameZOrder ==
    (ReplaceFigureReturned /\ call.keep_zorder)
        => ZOrderPosition(zorder, ret.shape) = ret.zorder

\* a placeholder other than the selected shape was deleted behind the
\* selected picture
DeletedBehind ==
    \E i \in 1..Len(ret.deleted) :
        /\ ret.deleted[i] # ret.selected
        /\ ZOrderPosition(zorder0, ret.deleted[i]) < ret.zorder

\* the host put the new picture into a placeholder of the slide
InOldShape == ret.shape \in Ids(shapes0)

\* what holds of C16: the position is the replaced picture's when no
\* placeholder behind the picture was deleted and the new picture is a new
\* shape
C16_SameZOrderNoneBehind ==
    (ReplaceFigureReturned /\ call.keep_zorder /\ ~DeletedBehind /\ ~InOldShape)
        => ZOrderPosition(zorder, ret.shape) = ret.zorder

\* an empty placeholder behind the replaced picture is deleted, and the new
\* picture is in front of a shape the replaced picture was behind
C16_Witness ==
    /\ ReplaceFigureReturned
    /\ call.keep_zorder
    /\ DeletedBehind
    /\ \E s \in Ids(shapes) \cap Ids(shapes0) :
          /\ ret.zorder < ZOrderPosition(zorder0, s)
          /\ ZOrderPosition(zorder, s) < ZOrderPosition(zorder, ret.shape)

\* zorder_no=k with 1 <= k <= N was given
ZOrderNoCall ==
    /\ ReplaceFigureDone
    /\ GivenSelectors = {"zorder_no"}
    /\ 1 <= call.zorder_no[1]
    /\ call.zorder_no[1] <= Len(pics0)

\* the pictures in front of the shape id in the z-order the call found
PicturesInFront(id) ==
    {i \in 1..Len(pics0) :
        ZOrderPosition(zorder0, pics0[i].id) > ZOrderPosition(zorder0, id)}

\* C17: replace_figure with zorder_no=k (1 <= k <= N) selects the picture
\* that is k-th from the front in z-order among the pictures of the slide
\* (front-most = 1), for every enumeration order of the shapes relative to
\* their z-order.
C17_KthFromFront ==
    ZOrderNoCall =>
        /\ "selected" \in DOMAIN ret
        /\ Cardinality(PicturesInFront(ret.selected)) = call.zorder_no[1] - 1

\* the pictures are enumerated from back to front, or from front to back
EnumeratedInZOrder ==
    \/ \A i, j \in 1..Len(pics0) :
          i < j => ZOrderPosition(zorder0, pics0[i].id) < ZOrderPosition(zorder0, pics0[j].id)
    \/ \A i, j \in 1..Len(pics0) :
          i < j => ZOrderPosition(zorder0, pics0[i].id) > ZOrderPosition(zorder0, pics0[j].id)

\* what holds of C17: the k-th picture from the front is selected when the
\* enumeration order of the pictures is their z-order or its reverse
C17_KthFromFrontEnumerated ==
    (ZOrderNoCall /\ EnumeratedInZOrder) =>
        /\ "selected" \in DOMAIN ret
        /\ Cardinality(PicturesInFront(ret.selected)) = call.zorder_no[1] - 1

\* zorder_no=1 on three pictures has selected the back-most one
C17_Witness ==
    /\ ZOrderNoCall
    /\ call.zorder_no = Some(1)
    /\ Len(pics0) = 3
    /\ Cardinality(PicturesInFront(ret.selected)) = 2

(***************************************************************************)
(* Properties of the check of the inserted rectangle.                      *)
(***************************************************************************)
\* a call has inserted its picture
PictureInserted ==
    /\ pc = "done"
    /\ call.fn \in {"_add_figure", "_replace_figure"}
    /\ "filled_bbox" \in DOMAIN ret

\* component i of the realized rectangle is more than 0.1 away from the
\* intended one
Mismatch(i) ==
    \/ RLt(Frac(1, 10), RSub(ret.bbox[i], ret.filled_bbox[i]))
    \/ RLt(Frac(1, 10), RSub(ret.filled_bbox[i], ret.bbox[i]))

\* C18: after the picture is inserted, the warning that the bbox was not
\* respected is issued exactly when some component of the realized
\* rectangle differs from the intended one by more than 0.1; then the
\* picture stays inserted, the filled placeholders are still reverted, the
\* temporary file is still deleted and the call returns.
C18_WarnedNotFatal ==
    PictureInserted =>
        /\ ret.warned <=> \E i \in 1..4 : Mismatch(i)
        /\ ret.warned =>
              /\ ret.raised = "none"
              /\ \E i \in 1..Len(shapes) :
                    /\ shapes[i].id = ret.shape
                    /\ IsPictureShape(shapes[i])
                    /\ RectOf(shapes[i]) = ret.filled_bbox
              /\ ret.reverted = ret.filled
              /\ \A i \in 1..Len(shapes) : shapes[i].Text # _TEMPTEXT
              /\ \A i \in 1..Len(ret.filled) :
                    ShapeById(shapes, ret.filled[i]) = ShapeById(shapes0, ret.filled[i])
              /\ ~tmpfile

\* the picture asked at AskedRect landed in the placeholder without a text
\* frame: the warning was issued and the placeholder for a chart, which had
\* been filled, is empty again
C18_Witness ==
    /\ PictureInserted
    /\ ret.warned
    /\ ret.bbox = AskedRect
    /\ ret.filled_bbox = PlaceholderRect
    /\ ret.filled # <<>>
    /\ ret.reverted = ret.filled
    /\ ~tmpfile

(***************************************************************************)
(* add_slide and the relay's /add_slide.  Slides are numbered from 1;      *)
(* Presentation.Slides[n - 1] is the slide number n.                       *)
(***************************************************************************)
\* the presentations have 1..MaxSlides slides
MaxSlides == 3

Digits == <<"0", "1", "2", "3", "4", "5", "6", "7", "8", "9">>

\* str(n) and int(s) for the numbers of one digit
str(n) == Digits[n + 1]

int(s) == CHOOSE n \in 0..9 : Digits[n + 1] = s

\* the sequence s with x inserted as its i-th element
InsertAt(s, i, x) == SubSeq(s, 1, i - 1) \o <<x>> \o SubSeq(s, i, Len(s))

\* an id no slide of the presentation had when the call started
FreshSlideId == 1 + Len(presentation0.Slides)

\* add_slide(slide_no, layout_as, make_active) on the presentation P: the
\* presentation after the call and the value returned.  The window stays on
\* the slide it showed unless make_active.
add_slide(P, slide_no, layout_as, make_active) ==
    LET no == IF slide_no = None THEN P.active ELSE slide_no[1]
        la == IF layout_as = None THEN no ELSE layout_as[1]
        pptLayout == P.Slides[la].CustomLayout
        number == no + 1
    IN  [presentation |->
            [Slides |-> InsertAt(P.Slides, no + 1,
                                 [id |-> FreshSlideId, CustomLayout |-> pptLayout]),
             active |-> IF make_active THEN number
                        ELSE IF P.active > no THEN P.active + 1 ELSE P.active],
         value |-> number]

\* request.args.get(name, default=None, type=int)
ArgInt(arg) == IF arg = None THEN None ELSE Some(int(arg[1]))

\* the presentations a call may find open
Layouts == {"Title", "Content"}

Decks ==
    UNION {{[i \in 1..n |-> [id |-> i, CustomLayout |-> layouts[i]]] :
                layouts \in [1..n -> Layouts]} : n \in 1..MaxSlides}

Presentations ==
    UNION {{[Slides |-> deck, active |-> a] : a \in 1..Len(deck)} : deck \in Decks}

\* the slide numbers a caller may pass, None for the default
SlideNoArgs == {None} \cup {Some(n) : n \in 1..Len(presentation.Slides)}

\* the client's query string: None values are left out, numbers go as text
QueryInt(arg) == IF arg = None THEN None ELSE Some(str(arg[1]))

\* bool(request.args.get('make_active', default=None, type=int))
ArgBool(arg) == arg # None /\ int(arg[1]) # 0

\* the relay's /add_slide handler on the query q: it calls add_slide and
\* answers with the text 'OK'
server_add_slide(P, q) ==
    [presentation |-> add_slide(P, ArgInt(q.slide_no), ArgInt(q.layout_as),
                                ArgBool(q.make_active)).presentation,
     value |-> "OK"]

InitPresentation ==
    /\ NoRemote
    /\ presentation \in Presentations
    /\ presentation0 = presentation
    /\ shapes = <<>>
    /\ zorder = <<>>
    /\ shapes0 = <<>>
    /\ zorder0 = <<>>
    /\ tmpfile = FALSE
    /\ slideDims = <<720, 540>>
    /\ pc = "idle"
    /\ call = [fn |-> "none"]
    /\ ret = [raised |-> "none"]

\* add_slide called in the process that drives PowerPoint
AddSlide ==
    /\ pc = "idle"
    /\ \E slide_no \in SlideNoArgs, layout_as \in SlideNoArgs, make_active \in BOOLEAN :
        \E r \in {add_slide(presentation, slide_no, layout_as, make_active)} :
            /\ pc' = "done"
            /\ call' = [fn |-> "add_slide", slide_no |-> slide_no,
                        layout_as |-> layout_as, make_active |-> make_active]
            /\ presentation' = r.presentation
            /\ ret' = Returned(r.value)
            /\ UNCHANGED <<shapes, zorder, slideDims, tmpfile, shapes0, zorder0,
                           presentation0, localfile, serverfiles, net>>

\* the client's add_slide: a GET of /add_slide on the relay, whose response
\* text is what the client returns
RelayAddSlide ==
    /\ pc = "idle"
    /\ \E slide_no \in SlideNoArgs, layout_as \in SlideNoArgs, make_active \in BOOLEAN :
        \E r \in {server_add_slide(presentation,
                    [slide_no |-> QueryInt(slide_no), layout_as |-> QueryInt(layout_as),
                     make_active |-> Some(str(IF make_active THEN 1 ELSE 0))])} :
            /\ pc' = "done"
            /\ call' = [fn |-> "/add_slide", slide_no |-> slide_no,
                        layout_as |-> layout_as, make_active |-> make_active]
            /\ presentation' = r.presentation
            /\ ret' = Returned(r.value)
            /\ UNCHANGED <<shapes, zorder, slideDims, tmpfile, shapes0, zorder0,
                           presentation0, localfile, serverfiles, net>>

NextPresentation == AddSlide \/ RelayAddSlide

SpecPresentation == InitPresentation /\ [][NextPresentation]_vars

AddSlideDone == pc = "done" /\ call.fn \in {"add_slide", "/add_slide"}

\* the slide number and the layout's slide number the call works with
after_no == IF call.slide_no = None THEN presentation0.active ELSE call.slide_no[1]

layout_no == IF call.layout_as = None THEN after_no ELSE call.layout_as[1]

\* one new slide stands right after the slide after_no, with the layout of the
\* slide layout_no, and the slides the presentation had keep their order
SlideInsertedAfter ==
    /\ Len(presentation.Slides) = Len(presentation0.Slides) + 1
    /\ \A i \in 1..after_no : presentation.Slides[i] = presentation0.Slides[i]
    /\ \A i \in (after_no + 1)..Len(presentation0.Slides) :
            presentation.Slides[i + 1] = presentation0.Slides[i]
    /\ \A i \in 1..Len(presentation0.Slides) :
            presentation.Slides[after_no + 1].id # presentation0.Slides[i].id
    /\ presentation.Slides[after_no + 1].CustomLayout =
            presentation0.Slides[layout_no].CustomLayout

\* C19: through the relay, add_slide inserts one slide right after the slide
\* slide_no (the active slide by default) with the layout of the slide
\* layout_as (slide_no by default), and the response is the new slide's number
C19_RelayReturnsNumber ==
    (pc = "done" /\ call.fn = "/add_slide") =>
        /\ SlideInsertedAfter
        /\ ret.value = str(after_no + 1)

\* C19, as the code has it: the slide is inserted as stated, the local
\* add_slide returns its number, and the relay answers with the text OK
C19_RelayReturnsOK ==
    AddSlideDone =>
        /\ SlideInsertedAfter
        /\ call.fn = "add_slide" => ret.value = after_no + 1
        /\ call.fn = "/add_slide" => ret.value = "OK"

\* C19: a relay call with the defaults on a presentation of several slides
\* whose active slide is not the last one
C19_Witness ==
    /\ pc = "done" /\ call.fn = "/add_slide"
    /\ call.slide_no = None /\ call.layout_as = None
    /\ presentation0.active < Len(presentation0.Slides)
    /\ SlideInsertedAfter
    /\ ret.value = "OK"

(***************************************************************************)
(* replace=true together with a placeholder that was found.                *)
(***************************************************************************)
\* _add_figure was called with bbox=None and replace=true on a slide that
\* has an empty placeholder for pictures, and has inserted its picture
PlaceholderReplaceCallDone == PlaceholderCallDone /\ call.replace

\* C20: add_figure with bbox=None that finds an empty placeholder for
\* pictures skips the replacement by overlap even with replace=true: no
\* picture of the slide is deleted and the target stays the rectangle of the
\* placeholder (in slide units, aspect-fitted when keep_aspect).
C20_ReplaceSkipped ==
    PlaceholderReplaceCallDone =>
        /\ ret.use_placeholder
        /\ ret.replaced = 0
        /\ OtherPicturesKept(0)
        /\ ret.bbox = Fitted(ScaledIfUnit(RectOf(emptyPictures0[1])))

\* C20, as the code has it: with replace=true the replacement by overlap
\* runs on the placeholder's rectangle as it does on any other target, and
\* the replacement is skipped only when no picture has a ratio over 0.1
C20_ReplaceNotSkipped ==
    PlaceholderReplaceCallDone =>
        /\ ret.use_placeholder
        /\ ret.target = ScaledIfUnit(RectOf(emptyPictures0[1]))
        /\ ReplacedOrInserted

\* an empty placeholder for pictures is found, a picture that overlaps it is
\* deleted and the new picture is asked at that picture's rectangle
C20_Witness ==
    /\ PlaceholderReplaceCallDone
    /\ ret.use_placeholder
    /\ ~call.keep_aspect
    /\ ret.replaced # 0
    /\ \A j \in 1..Len(shapes) : shapes[j].id # ret.replaced
    /\ ret.bbox = RectOf(ShapeById(shapes0, ret.replaced))
    /\ ret.bbox # RectOf(emptyPictures0[1])
    /\ ~AllInUnit(RectOf(emptyPictures0[1]))

(***************************************************************************)
(* _intersection_area on a rectangle b without area.                       *)
(***************************************************************************)
\* _intersection_area was called with a rectangle b of zero or negative
\* width or height
DegenerateCallDone ==
    /\ pc = "done"
    /\ call.fn = "_intersection_area"
    /\ ~PositiveRect(call.b)

\* C21: _intersection_area(a, b) returns 0, and does not fail with a
\* division by zero, when b has a zero or negative width or height.
C21_ZeroForDegenerate ==
    DegenerateCallDone => (ret.raised = "none" /\ ret.value = Zero)

\* C21, as the code has it: the call returns 0 when the width and the height
\* of b are both different from 0 (one of them negative), and fails with
\* ZeroDivisionError when one of them is 0
C21_ZeroOrDivisionError ==
    DegenerateCallDone =>
        IF call.b[3] = Zero \/ call.b[4] = Zero
        THEN ret = Raised("ZeroDivisionError")
        ELSE ret = Returned(Zero)

\* a call with a rectangle b of width 0 that lies inside a has failed with
\* the division by zero
C21_Witness ==
    /\ DegenerateCallDone
    /\ call.b[3] = Zero
    /\ RLt(Zero, call.b[4])
    /\ RLe(call.a[1], call.b[1]) /\ RLe(call.b[1], RAdd(call.a[1], call.a[3]))
    /\ ret.raised = "ZeroDivisionError"

(***************************************************************************)
(* The empty placeholders of a call with an explicit bbox.                 *)
(***************************************************************************)
\* _add_figure was called with a bbox (a rectangle or a preset name) and
\* delete_placeholders=true, and has inserted its picture
ExplicitDeleteDone ==
    /\ pc = "done"
    /\ call.fn = "_add_figure"
    /\ call.bbox.kind # "None"
    /\ call.delete_placeholders
    /\ ret.raised = "none"

\* the placeholders for a title and the placeholders that are not empty
KeptKind(s) == IsPlaceholder(s) /\ (s.phType \in pp_titles \/ ~_is_placeholder_empty(s))

\* no empty placeholder is on the slide but those for a title
NoEmptyPlaceholderLeft ==
    \A j \in 1..Len(shapes) :
        (IsPlaceholder(shapes[j]) /\ _is_placeholder_empty(shapes[j]))
            => shapes[j].phType \in pp_titles

\* the shape of the slide before the call is on the slide as it was
StillThere(s) == \E j \in 1..Len(shapes) : shapes[j] = s

\* C22 as the specification words it: after a successful add_figure with a
\* bbox and delete_placeholders=true no empty placeholder other than Title,
\* Subtitle, Body is on the slide, and every Title, Subtitle, Body
\* placeholder and every non-empty placeholder of the slide is still there.
C22_EmptyDeletedOthersKept ==
    ExplicitDeleteDone =>
        /\ NoEmptyPlaceholderLeft
        /\ \A i \in 1..Len(shapes0) : KeptKind(shapes0[i]) => StillThere(shapes0[i])

\* C22, amended: after a successful add_figure with a bbox and
\* delete_placeholders=true no empty placeholder other than Title, Subtitle,
\* Body is on the slide, and every Title, Subtitle, Body placeholder and
\* every non-empty placeholder is still there, except the placeholder that
\* held the picture replaced (replace=true): it is emptied by the
\* replacement and then deleted with the empty placeholders.
C22_EmptyDeletedOthersKeptButReplaced ==
    ExplicitDeleteDone =>
        /\ NoEmptyPlaceholderLeft
        /\ \A i \in 1..Len(shapes0) :
              (KeptKind(shapes0[i]) /\ shapes0[i].id # ret.replaced)
                  => StillThere(shapes0[i])
        /\ (ret.replaced # 0 /\ IsPlaceholder(ShapeById(shapes0, ret.replaced)))
              => ret.replaced \notin Ids(shapes)
        /\ ~call.replace => ret.replaced = 0

\* an empty placeholder is deleted while a title and a placeholder that
\* holds a picture stay
C22_Witness ==
    /\ ExplicitDeleteDone
    /\ ret.replaced = 0
    /\ ret.deleted # <<>>
    /\ \A j \in 1..Len(ret.deleted) : ret.deleted[j] \notin Ids(shapes)
    /\ \E i \in 1..Len(shapes0) :
          /\ shapes0[i].phType \in pp_titles
          /\ StillThere(shapes0[i])
    /\ \E i \in 1..Len(shapes0) :
          /\ IsPlaceholder(shapes0[i])
          /\ shapes0[i].phType \notin pp_titles
          /\ ~_is_placeholder_empty(shapes0[i])
          /\ StillThere(shapes0[i])

(***************************************************************************)
(* The temporary text in the empty placeholders.                           *)
(***************************************************************************)
\* _add_figure was called with a bbox and delete_placeholders=false, has
\* replaced no picture and has inserted its picture
FillCallDone ==
    /\ pc = "done"
    /\ call.fn = "_add_figure"
    /\ call.bbox.kind # "None"
    /\ ~call.delete_placeholders
    /\ ret.raised = "none"
    /\ ret.replaced = 0

\* the empty placeholder that is no title and has a text frame
Fillable0(s) ==
    /\ IsPlaceholder(s)
    /\ _is_placeholder_empty(s)
    /\ s.phType \notin pp_titles
    /\ _has_textframe(s)

\* the text of the shape id on the slide S
TextOf(S, id) == ShapeById(S, id).Text

\* C23: in add_figure with a bbox, delete_placeholders=false and no picture
\* replaced: when the picture is inserted, every empty placeholder that is
\* no title and has a text frame carries the temporary text, and no other
\* shape does; the revert runs on exactly the shapes filled; after the
\* return every placeholder has the text it had before the call, none has
\* the temporary text, and a placeholder without a text frame was never
\* written to.
C23_FilledAndReverted ==
    FillCallDone =>
        /\ \A i \in 1..Len(shapes0) :
              /\ shapes0[i].id \in Ids(ret.slide)
              /\ TextOf(ret.slide, shapes0[i].id) =
                    IF Fillable0(shapes0[i]) THEN _TEMPTEXT ELSE shapes0[i].Text
              /\ Fillable0(shapes0[i])
                    <=> \E k \in 1..Len(ret.filled) : ret.filled[k] = shapes0[i].id
        /\ ret.reverted = ret.filled
        /\ \A i \in 1..Len(shapes0) :
              /\ shapes0[i].id \in Ids(shapes)
              /\ TextOf(shapes, shapes0[i].id) = shapes0[i].Text
        /\ \A j \in 1..Len(shapes) : shapes[j].Text # _TEMPTEXT

\* C23, the other direction: a call that returns has filled placeholders
\* only with a bbox or without an empty placeholder for pictures, with
\* delete_placeholders=false and no picture replaced
C23_FilledOnlyThen ==
    (AddFigureDone /\ ret.raised = "none" /\ ret.filled # <<>>) =>
        /\ ~ret.use_placeholder
        /\ ~call.delete_placeholders
        /\ ret.replaced = 0
        /\ ret.reverted = ret.filled

\* a placeholder with a text frame was filled and reverted, one without a
\* text frame was left alone, with replace=true and no picture to replace
C23_Witness ==
    /\ FillCallDone
    /\ call.replace
    /\ Len(ret.filled) > 0
    /\ \E i \in 1..Len(shapes0) :
          /\ IsPlaceholder(shapes0[i])
          /\ _is_placeholder_empty(shapes0[i])
          /\ ~_has_textframe(shapes0[i])
    /\ \A k \in 1..Len(ret.filled) :
          /\ TextOf(ret.slide, ret.filled[k]) = _TEMPTEXT
          /\ TextOf(shapes, ret.filled[k]) = ""

(***************************************************************************)
(* bbox=None without a placeholder for pictures.                           *)
(***************************************************************************)
\* _add_figure was called with bbox=None on a slide without an empty
\* placeholder for pictures
NoPlaceholderCallDone ==
    /\ pc = "done"
    /\ call.fn = "_add_figure"
    /\ call.bbox.kind = "None"
    /\ Len(emptyPictures0) = 0

\* what the same call with bbox="center" does on the slide the call found
SameCallWithCenter ==
    _add_figure(shapes0, zorder0,
                [call EXCEPT !.bbox = [kind |-> "str",
                                       name |-> <<"c", "e", "n", "t", "e", "r">>]],
                call.host)

\* C24: add_figure with bbox=None on a slide that has no empty placeholder
\* for pictures leaves the slide, and inserts the picture at the rectangle,
\* that add_figure with bbox="center" and the same other options does.
C24_NoneIsCenter ==
    NoPlaceholderCallDone =>
        /\ shapes = SameCallWithCenter.shapes
        /\ zorder = SameCallWithCenter.zorder
        /\ tmpfile = SameCallWithCenter.tmpfile
        /\ ret = SameCallWithCenter.ret

\* a call with bbox=None on a slide whose only empty placeholder is not one
\* for pictures has inserted a new picture at the centre of the slide
C24_Witness ==
    /\ NoPlaceholderCallDone
    /\ ret.raised = "none"
    /\ ~ret.use_placeholder
    /\ ~call.keep_aspect
    /\ Len(_empty_placeholders(shapes0)) > 0
    /\ ret.bbox = _scale_bbox(_parse_preset(<<"c", "e", "n", "t", "e", "r">>))
    /\ ret.shape \notin Ids(shapes0)
    /\ shapes = SameCallWithCenter.shapes

(***************************************************************************)
(* The rectangles of the presets.                                          *)
(***************************************************************************)
\* a call on a name that _is_valid_preset_name accepts
ValidNameCallDone(fn) ==
    /\ pc = "done"
    /\ call.fn = fn
    /\ _is_valid_preset_name(call.name)

\* the rectangle is normalized and inside the slide
InsideUnitSlide(r) ==
    /\ \A i \in 1..4 : RLe(Zero, r[i]) /\ RLe(r[i], One)
    /\ RLe(RAdd(r[1], r[3]), One)
    /\ RLe(RAdd(r[2], r[4]), One)

\* the rectangle r multiplied by the slide dimensions
TimesSlide(r) ==
    <<RMul(r[1], R(slideDims[1])), RMul(r[2], R(slideDims[2])),
      RMul(r[3], R(slideDims[1])), RMul(r[4], R(slideDims[2]))>>

\* C25: every name that _is_valid_preset_name accepts is resolved by
\* _parse_preset without an error, to a rectangle whose four components lie
\* in [0, 1] with x + width <= 1 and y + height <= 1; so the resolution of a
\* preset name always multiplies it by the slide dimensions.
C25_PresetsNormalized ==
    /\ ValidNameCallDone("_parse_preset") =>
          /\ ret.raised = "none"
          /\ InsideUnitSlide(ret.value)
    /\ ValidNameCallDone("resolve") =>
          /\ ret.raised = "none"
          /\ InsideUnitSlide(_parse_preset(call.name))
          /\ ret.value = TimesSlide(_parse_preset(call.name))

\* the preset 236XL, whose rectangle ends on the right edge of the size XL,
\* has been resolved and multiplied by the slide dimensions
C25_Witness ==
    /\ ValidNameCallDone("resolve")
    /\ lower(call.name) = <<"2", "3", "6", "x", "l">>
    /\ ret.raised = "none"
    /\ ret.value = TimesSlide(_parse_preset(call.name))
    /\ RAdd(_parse_preset(call.name)[1], _parse_preset(call.name)[3])
          = RAdd(preset_sizes[<<"X", "L">>][1], preset_sizes[<<"X", "L">>][3])

(***************************************************************************)
(* The z-order adjustment of _add_figure (lines 540-542), one step of the  *)
(* loop at a time.  zorder is the stack of the slide after AddPicture,     *)
(* call.shape the shape AddPicture returned, ret.moves the number of       *)
(* ZOrder(msoSendBackward) calls made so far.                              *)
(***************************************************************************)
\* the slides have 1..MaxStack shapes
MaxStack == 4

\* the loop is followed for at most MaxMoves calls of SendBackward
MaxMoves == 6

\* target_z_order: None, or a number from below 0 to above the stack
LoopTargets == {None} \cup {Some(t) : t \in (-1)..(MaxStack + 1)}

\* ZOrderGuard without the test target_z_order > 0
ZOrderGuard_notNone(target_z_order) == target_z_order # None

\* line 540: target_z_order is not None and target_z_order > 0
ZOrderGuard(target_z_order) == target_z_order # None /\ target_z_order[1] > 0

\* line 541: shape.ZOrderPosition > target_z_order
LoopCondition(Z, id, target_z_order) == ZOrderPosition(Z, id) > target_z_order[1]

InitZOrder ==
    /\ NoRemote
    /\ zorder \in UNION {Perms(1..n) : n \in 1..MaxStack}
    /\ zorder0 = zorder
    /\ shapes = <<>>
    /\ shapes0 = <<>>
    /\ presentation = OnePresentation
    /\ presentation0 = OnePresentation
    /\ tmpfile = TRUE
    /\ slideDims = <<720, 540>>
    /\ pc = "idle"
    /\ call = [fn |-> "none"]
    /\ ret = [raised |-> "none"]

\* line 540: the test before the loop
EnterLoop ==
    /\ pc = "idle"
    /\ \E shape \in 1..Len(zorder), target_z_order \in LoopTargets :
        /\ call' = [fn |-> "adjust_z_order", shape |-> shape,
                    target_z_order |-> target_z_order]
        /\ pc' = IF ZOrderGuard(target_z_order) THEN "loop" ELSE "done"
        /\ ret' = [raised |-> "none", moves |-> 0]
        /\ UNCHANGED <<shapes, zorder, slideDims, tmpfile, shapes0, zorder0,
                       presentation, presentation0,
                       localfile, serverfiles, net>>

\* lines 541-542: the condition holds and the shape is sent backward
SendBackwardStep ==
    /\ pc = "loop"
    /\ ret.moves < MaxMoves
    /\ LoopCondition(zorder, call.shape, call.target_z_order)
    /\ zorder' = HostSendBackward(zorder, call.shape)
    /\ ret' = [ret EXCEPT !.moves = @ + 1]
    /\ UNCHANGED <<shapes, slideDims, tmpfile, pc, call, shapes0, zorder0,
                   presentation, presentation0, localfile, serverfiles, net>>

\* line 541: the condition fails and the loop is left
ExitLoop ==
    /\ pc = "loop"
    /\ ~LoopCondition(zorder, call.shape, call.target_z_order)
    /\ pc' = "done"
    /\ UNCHANGED <<shapes, zorder, slideDims, tmpfile, call, ret, shapes0, zorder0,
                   presentation, presentation0, localfile, serverfiles, net>>

NextZOrder == EnterLoop \/ SendBackwardStep \/ ExitLoop

\* the code runs on: a step that can be taken is taken
SpecZOrder == InitZOrder /\ [][NextZOrder]_vars /\ WF_vars(NextZOrder)

\* the loop of a call is running or has ended
InZOrderCall == pc \in {"loop", "done"} /\ call.fn = "adjust_z_order"

\* the moves made are fewer than the shapes of the slide, none is made for a
\* target that is None, 0 or negative, and when the loop has ended the
\* z-order is the one AdjustZOrder computes
BoundedMoves ==
    InZOrderCall =>
        /\ ret.moves <= Len(zorder)
        /\ ret.moves = ZOrderPosition(zorder0, call.shape) - ZOrderPosition(zorder, call.shape)
        /\ (call.target_z_order = None \/ call.target_z_order[1] <= 0)
              => (pc = "done" /\ ret.moves = 0 /\ zorder = zorder0)
        /\ pc = "done"
              => zorder = AdjustZOrder(zorder0, call.shape, call.target_z_order)

\* C26: the z-order loop of _add_figure ends for every target_z_order and
\* every slide, after at most as many SendBackward calls as the slide has
\* shapes, when one SendBackward lowers the position of the shape by one
\* until it is back-most; a target that is None, 0 or negative causes no
\* call of SendBackward.
C26_LoopTerminates == []BoundedMoves /\ <>(pc = "done")

\* the front-most of MaxStack shapes has been sent to the back, in
\* MaxStack - 1 moves, and the loop has ended
C26_Witness ==
    /\ InZOrderCall
    /\ pc = "done"
    /\ Len(zorder) = MaxStack
    /\ call.target_z_order = Some(1)
    /\ ZOrderPosition(zorder0, call.shape) = MaxStack
    /\ ZOrderPosition(zorder, call.shape) = 1
    /\ ret.moves = MaxStack - 1

(***************************************************************************)
(* add_figure with replace=true called twice with the same arguments.      *)
(* In the second call shapes0 and zorder0 are the slide the second call    *)
(* found, and ret.first is the record of the first call.                   *)
(***************************************************************************)
\* the first call
FirstCall ==
    /\ pc = "idle"
    /\ \E a \in {x \in AddFigureArgs : x.replace}, host \in HostChoices(shapes) :
        /\ <<a.w, a.h>> \in ImageSizes(a.keep_aspect)
        /\ \E r \in {_add_figure(shapes, zorder, a, host)} :
            /\ pc' = "once"
            /\ call' = [fn |-> "_add_figure", host |-> host] @@ a
            /\ shapes' = r.shapes
            /\ zorder' = r.zorder
            /\ tmpfile' = r.tmpfile
            /\ ret' = r.ret
            /\ UNCHANGED <<slideDims, shapes0, zorder0, presentation, presentation0,
                           localfile, serverfiles, net>>

\* add_figure is called again: lines 603-611, the figure is saved to a new
\* temporary file
SaveFigureAgain ==
    /\ pc = "once"
    /\ pc' = "saved"
    /\ tmpfile' = TRUE
    /\ shapes0' = shapes
    /\ zorder0' = zorder
    /\ UNCHANGED <<shapes, zorder, slideDims, call, ret, presentation, presentation0,
                   localfile, serverfiles, net>>

\* the second call of _add_figure, with the arguments of the first, on the
\* slide the first call left
SecondCall ==
    /\ pc = "saved"
    /\ \E host \in HostChoices(shapes) :
        \E r \in {_add_figure(shapes, zorder, call, host)} :
            /\ pc' = "done"
            /\ call' = [call EXCEPT !.fn = "_add_figure twice", !.host = host]
            /\ shapes' = r.shapes
            /\ zorder' = r.zorder
            /\ tmpfile' = r.tmpfile
            /\ ret' = [first |-> ret] @@ r.ret
            /\ UNCHANGED <<slideDims, shapes0, zorder0, presentation, presentation0,
                           localfile, serverfiles, net>>

NextTwice == FirstCall \/ SaveFigureAgain \/ SecondCall

SpecTwice == Init /\ [][NextTwice]_vars

\* both calls have inserted their picture, and the first call found no
\* picture to replace
TwiceDone ==
    /\ pc = "done"
    /\ call.fn = "_add_figure twice"
    /\ ret.first.raised = "none"
    /\ ret.first.replaced = 0
    /\ ret.raised = "none"

\* the rectangle of the picture a call has inserted
InsertedRect(S, r) == RectOf(ShapeById(S, r.shape))

\* when the second call started no picture but the one the first call
\* inserted had a part inside the target
NoOtherOverlaps ==
    \A i \in 1..Len(pics0) :
        pics0[i].id # ret.first.shape
            => _intersection_area(ret.target, RectOf(pics0[i])) = Zero

\* the second call has replaced the picture of the first: the slide has the
\* pictures it had after the first call, the new one for the old one, at the
\* same rectangle
OnePictureSameRect ==
    /\ ret.replaced = ret.first.shape
    /\ Len(_pictures(shapes)) = Len(pics0)
    /\ InsertedRect(shapes, ret) = InsertedRect(shapes0, ret.first)

BothOutsidePlaceholders ==
    /\ ret.first.shape \notin Ids(ret.first.slide)
    /\ ret.shape \notin Ids(shapes0)

AddedNotReplaced ==
    /\ pc = "done"
    /\ call.fn = "_add_figure"
    /\ ret.raised = "none"
    /\ ret.replaced = 0

\* the picture with the id has the rectangle it had when the call started
KeepsRect(id) == RectOf(ShapeById(shapes, id)) = RectOf(ShapeById(shapes0, id))

\* C28: a successful replace_figure removes one picture and inserts one: the
\* slide has as many pictures (_pictures: pictures and occupied placeholders
\* for pictures) as before, the pictures are those it had with the new one
\* for the selected one, and every other picture keeps its rectangle; a
\* successful add_figure that replaces no picture raises the number of
\* pictures by one.
C28_PictureCount ==
    /\ ReplaceFigureReturned =>
          /\ Len(_pictures(shapes)) = Len(pics0)
          /\ Ids(_pictures(shapes)) = (Ids(pics0) \ {ret.selected}) \cup {ret.shape}
          /\ \A id \in Ids(pics0) \ {ret.selected} : KeepsRect(id)
    /\ AddedNotReplaced =>
          /\ Len(_pictures(shapes)) = Len(pics0) + 1
          /\ Ids(_pictures(shapes)) = Ids(pics0) \cup {ret.shape}
          /\ \A id \in Ids(pics0) : KeepsRect(id)

\* the middle one of three pictures was replaced: three pictures, the other
\* two where they were
C28_Witness ==
    /\ ReplaceFigureReturned
    /\ Len(pics0) = 3
    /\ ret.selected = pics0[2].id
    /\ ret.shape \notin Ids(shapes0)
    /\ Len(_pictures(shapes)) = 3
    /\ KeepsRect(pics0[1].id) /\ KeepsRect(pics0[3].id)

(***************************************************************************)
(* The remote path: the client saves the figure, uploads it to the relay   *)
(* and posts the call.  pc is the position of the client, call what it     *)
(* was asked, ret what it returned; net holds the requests and responses   *)
(* in flight.                                                              *)
(***************************************************************************)
\* the names _temp_fname may give a file on the relay
ServerPaths == {"tmp1.png", "tmp2.png"}

\* the name of the client's temporary file
LocalPath == "local.png"

\* the slides of the remote calls: an empty slide, a layout, three pictures
RemoteSlides ==
    { <<>>,
      << Placeholder(1, "ppPlaceholderTitle", "msoAutoShape", TRUE, "",
                     Rect(30, 20, 660, 60)),
         Placeholder(2, "ppPlaceholderPicture", "msoAutoShape", TRUE, "",
                     PlaceholderRect) >>,
      << Picture(1, Rect(300, 200, 100, 100)), Picture(2, Rect(100, 300, 100, 100)),
         Picture(3, Rect(200, 100, 100, 100)) >> }

\* {_: kwargs[_] for _ in kwargs if kwargs[_] is not None}: the JSON object
\* of the arguments that are not None
WithoutNone(kwargs) ==
    [k \in {n \in DOMAIN kwargs : kwargs[n] # None} |-> kwargs[k][1]]

\* args.get(name, default)
ArgsGet(args, name, default) == IF name \in DOMAIN args THEN args[name] ELSE default

\* args.get(name, None) for an argument the core takes as None or a value
ArgsGetOption(args, name) == IF name \in DOMAIN args THEN Some(args[name]) ELSE None

\* the keyword arguments of the client's add_figure, None as <<>>
ClientAddFigureKwargs ==
    {[bbox |-> bbox, slide_no |-> None, keep_aspect |-> Some(keep_aspect),
      delete_placeholders |-> Some(delete_placeholders), replace |-> Some(replace),
      w |-> Some(wh[1]), h |-> Some(wh[2])] :
        bbox \in {None, Some([kind |-> "str", name |-> <<"C", "e", "n", "t", "e", "r">>]),
                  Some([kind |-> "str", name |-> <<"b", "a", "n", "a", "n", "a">>])},
        keep_aspect \in BOOLEAN, delete_placeholders \in BOOLEAN, replace \in BOOLEAN,
        wh \in {<<MaxImg, 1>>}}

\* the keyword arguments of the client's replace_figure
ClientReplaceFigureKwargs ==
    {[pic_no |-> pic_no, left_no |-> left_no, top_no |-> None, zorder_no |-> None,
      slide_no |-> None, keep_zorder |-> Some(keep_zorder),
      w |-> Some(wh[1]), h |-> Some(wh[2])] :
        pic_no \in {None, Some(1), Some(MaxOrd + 1)}, left_no \in {None, Some(-1)},
        keep_zorder \in BOOLEAN, wh \in {<<1, MaxImg>>}}

\* PostFilename with the client's own file name
PostFilename_local(filename, remote_fname) == filename

\* post_and_figure: the filename of the post is what upload_picture returned
PostFilename(filename, remote_fname) == remote_fname

\* the relay's /add_figure on the JSON object args: the arguments of
\* _add_figure
server_add_figure_args(args) ==
    [bbox |-> ArgsGet(args, "bbox", [kind |-> "None"]),
     keep_aspect |-> ArgsGet(args, "keep_aspect", TRUE),
     replace |-> ArgsGet(args, "replace", FALSE),
     delete_placeholders |-> ArgsGet(args, "delete_placeholders", TRUE),
     target_z_order |-> ArgsGetOption(args, "target_z_order"),
     delete |-> TRUE,
     w |-> ArgsGet(args, "w", None), h |-> ArgsGet(args, "h", None)]

\* the relay's /replace_figure on the JSON object args: the arguments of
\* _replace_figure; delete_placeholders is not passed on
server_replace_figure_args(args) ==
    [pic_no |-> ArgsGetOption(args, "pic_no"),
     left_no |-> ArgsGetOption(args, "left_no"),
     top_no |-> ArgsGetOption(args, "top_no"),
     zorder_no |-> ArgsGetOption(args, "zorder_no"),
     keep_aspect |-> ArgsGet(args, "keep_aspect", TRUE),
     keep_zorder |-> ArgsGet(args, "keep_zorder", TRUE),
     delete_placeholders |-> TRUE,
     w |-> ArgsGet(args, "w", None), h |-> ArgsGet(args, "h", None)]

\* what the handler of the url does on the slide, the host failing when the
\* file named is not there
server_figure(url, args, hostfails, keepsRect) ==
    LET host == [fails |-> hostfails \/ args.filename \notin serverfiles,
                 keepsRect |-> keepsRect]
    IN  IF url = "/add_figure"
        THEN _add_figure(shapes, zorder, server_add_figure_args(args), host)
        ELSE _replace_figure(shapes, zorder, server_replace_figure_args(args), host)

InitRemote ==
    /\ shapes \in RemoteSlides
    /\ zorder = [i \in 1..Len(shapes) |-> shapes[i].id]
    /\ shapes0 = shapes
    /\ zorder0 = zorder
    /\ slideDims = <<720, 540>>
    /\ tmpfile = FALSE
    /\ presentation = OnePresentation
    /\ presentation0 = OnePresentation
    /\ NoRemote
    /\ pc = "idle"
    /\ call = [fn |-> "none"]
    /\ ret = [raised |-> "none"]

\* add_figure / replace_figure of the client up to post_and_figure:
\* _save_figure writes the temporary file
ClientSaveFigure ==
    /\ pc = "idle"
    /\ \E kind \in {"requests", "javascript"} :
        \/ \E kw \in ClientAddFigureKwargs :
              call' = [fn |-> "add_figure", kind |-> kind, filename |-> LocalPath,
                       json |-> WithoutNone(kw)]
        \/ \E kw \in ClientReplaceFigureKwargs :
              call' = [fn |-> "replace_figure", kind |-> kind, filename |-> LocalPath,
                       json |-> WithoutNone(kw)]
    /\ localfile' = TRUE
    /\ pc' = "saved"
    /\ UNCHANGED <<shapes, zorder, slideDims, tmpfile, ret, shapes0, zorder0,
                   presentation, presentation0, serverfiles, net>>

\* ClientJavascript.post_and_figure: _read_base64 reads the file and removes
\* it, the script is handed to the browser and None is returned
JavascriptPostAndFigure ==
    /\ pc = "saved"
    /\ call.kind = "javascript"
    /\ localfile' = FALSE
    /\ pc' = "script"
    /\ UNCHANGED <<shapes, zorder, slideDims, tmpfile, call, ret, shapes0, zorder0,
                   presentation, presentation0, serverfiles, net>>

\* the POST of /upload_picture is sent: by requests.post in
\* ClientRequests.upload_picture, by $.ajax in the browser
SendUpload ==
    /\ \/ pc = "saved" /\ call.kind = "requests"
       \/ pc = "script"
    /\ net' = net \cup {[url |-> "/upload_picture", to |-> "relay"]}
    /\ pc' = "uploading"
    /\ UNCHANGED <<shapes, zorder, slideDims, tmpfile, call, ret, shapes0, zorder0,
                   presentation, presentation0, localfile, serverfiles>>

\* the relay's /upload_picture: the file is stored under a new temporary
\* name, which is the response
ServerUploadPicture ==
    \E m \in net, fname \in ServerPaths \ serverfiles :
        /\ m.to = "relay" /\ m.url = "/upload_picture"
        /\ serverfiles' = serverfiles \cup {fname}
        /\ net' = (net \ {m}) \cup {[url |-> m.url, to |-> "client", status |-> 200,
                                     text |-> fname]}
        /\ UNCHANGED <<shapes, zorder, slideDims, tmpfile, pc, call, ret, shapes0,
                       zorder0, presentation, presentation0, localfile>>

\* the upload has returned: ClientRequests.upload_picture removes the local
\* file and post sends the call; in the browser the success callback sends it
UploadReturned ==
    /\ pc = "uploading"
    /\ \E m \in net :
        /\ m.to = "client" /\ m.url = "/upload_picture"
        /\ localfile' = IF call.kind = "requests" THEN FALSE ELSE localfile
        /\ net' = (net \ {m}) \cup
                  {[url |-> "/" \o call.fn, to |-> "relay",
                    json |-> [filename |-> PostFilename(call.filename, m.text)]
                             @@ call.json]}
    /\ pc' = "posting"
    /\ UNCHANGED <<shapes, zorder, slideDims, tmpfile, call, ret, shapes0, zorder0,
                   presentation, presentation0, serverfiles>>

\* the relay's /add_figure and /replace_figure: the core function is called
\* on the file named, which it removes before it returns; the response is
\* OK, or the error page when it raises
ServerFigure ==
    \E m \in net, hostfails \in BOOLEAN, keepsRect \in BOOLEAN :
        /\ m.to = "relay" /\ m.url \in {"/add_figure", "/replace_figure"}
        /\ \E r \in {server_figure(m.url, m.json, hostfails, keepsRect)} :
            /\ shapes' = r.shapes
            /\ zorder' = r.zorder
            /\ serverfiles' = IF r.tmpfile
                              THEN serverfiles
                              ELSE serverfiles \ {m.json.filename}
            /\ net' = (net \ {m}) \cup
                      {IF r.ret.raised = "none"
                       THEN [url |-> m.url, to |-> "client", status |-> 200,
                             text |-> "OK"]
                       ELSE [url |-> m.url, to |-> "client", status |-> 500,
                             text |-> r.ret.raised]}
        /\ UNCHANGED <<slideDims, tmpfile, pc, call, ret, shapes0, zorder0,
                       presentation, presentation0, localfile>>

\* the response of the call: ClientRequests.post returns its text; the
\* browser calls getResults when the request succeeded, and nothing else
PostReturned ==
    /\ pc = "posting"
    /\ \E m \in net :
        /\ m.to = "client" /\ m.url = "/" \o call.fn
        /\ net' = net \ {m}
        /\ IF call.kind = "requests" \/ m.status = 200
           THEN pc' = "done" /\ ret' = [raised |-> "none", status |-> m.status,
                                        value |-> m.text]
           ELSE pc' = "failed" /\ ret' = ret
    /\ UNCHANGED <<shapes, zorder, slideDims, tmpfile, call, shapes0, zorder0,
                   presentation, presentation0, localfile, serverfiles>>

NextRemote ==
    \/ ClientSaveFigure
    \/ JavascriptPostAndFigure
    \/ SendUpload
    \/ ServerUploadPicture
    \/ UploadReturned
    \/ ServerFigure
    \/ PostReturned

SpecRemote == InitRemote /\ [][NextRemote]_vars

\* the requests of /add_figure and /replace_figure in flight
FigureRequests ==
    {m \in net : m.to = "relay" /\ m.url \in {"/add_figure", "/replace_figure"}}

\* the remote call has returned the relay's OK
RemoteCallSucceeded == pc = "done" /\ ret.status = 200 /\ ret.value = "OK"

\* C29: in the remote path, with either client, the request of /add_figure
\* or /replace_figure is sent only when the request of /upload_picture has
\* returned, and its filename is the path that upload stored the file
\* under; after a successful call neither the client's temporary file nor
\* the file on the relay is left.
C29_UploadThenPost ==
    /\ \A m \in FigureRequests :
          /\ pc = "posting"
          /\ \A u \in net : u.url # "/upload_picture"
          /\ serverfiles = {m.json.filename}
    /\ RemoteCallSucceeded => (~localfile /\ serverfiles = {})

\* a replace_figure through the browser has succeeded and both files are
\* gone
C29_Witness ==
    /\ RemoteCallSucceeded
    /\ call.kind = "javascript"
    /\ call.fn = "replace_figure"
    /\ ~localfile
    /\ serverfiles = {}
    /\ shapes # shapes0

(***************************************************************************)
(* Two /add_figure requests served at once.  The relay and the core hold   *)
(* no lock, so the statements of the two calls of _add_figure interleave;  *)
(* a step is one block of statements of _add_figure, and a request takes   *)
(* its steps in order.  pc[i] is the position of request i, ret[i] its     *)
(* local variables; call holds the slide the requests found and their      *)
(* arguments.  shapes0 is the slide as it was when the host last gave an   *)
(* id to a shape.                                                          *)
(***************************************************************************)
Requests == {1, 2}

\* the slides of the two requests: an empty placeholder for pictures; a
\* picture and an empty placeholder for a chart
ConcurrentSlides ==
    { << Placeholder(1, "ppPlaceholderPicture", "msoAutoShape", TRUE, "",
                     PlaceholderRect) >>,
      << Picture(1, PlaceholderRect),
         Placeholder(2, "ppPlaceholderChart", "msoAutoShape", TRUE, "",
                     Rect(400, 300, 200, 150)) >> }

\* the JSON objects of the requests
ConcurrentJson ==
    {[filename |-> fname, replace |-> replace, keep_aspect |-> keep_aspect,
      delete_placeholders |-> delete_placeholders, w |-> 1, h |-> 1] @@ b :
        fname \in {"tmp1.png"}, replace \in BOOLEAN, keep_aspect \in BOOLEAN,
        delete_placeholders \in BOOLEAN,
        b \in {<<>>, [bbox |-> [kind |-> "str", name |-> DefaultPreset]],
               [bbox |-> [kind |-> "list", rect |-> PlaceholderRect]]}}

\* the local variables of _add_figure before its first statement
NoLocals ==
    [raised |-> "none", use_placeholder |-> FALSE, bbox |-> <<>>, replace |-> FALSE,
     target_z_order |-> None, items |-> <<>>, shape |-> 0]

InitConcurrent ==
    /\ shapes \in ConcurrentSlides
    /\ zorder = [i \in 1..Len(shapes) |-> shapes[i].id]
    /\ shapes0 = shapes
    /\ zorder0 = zorder
    /\ slideDims = <<720, 540>>
    /\ tmpfile = TRUE
    /\ presentation = OnePresentation
    /\ presentation0 = OnePresentation
    /\ NoRemote
    /\ pc = [i \in Requests |-> "idle"]
    /\ ret = [i \in Requests |-> NoLocals]
    /\ \E j1 \in ConcurrentJson, j2 \in ConcurrentJson :
          call = [fn |-> "/add_figure", slide |-> shapes,
                  args |-> <<server_add_figure_args(j1), server_add_figure_args(j2)>>]

\* the variables no step of a request changes
ConcurrentFrame ==
    UNCHANGED <<slideDims, tmpfile, call, zorder0, presentation, presentation0,
                localfile, serverfiles, net>>

\* lines 490-506: the placeholder is looked for and bbox is resolved
StepBbox(i) ==
    /\ pc[i] = "idle"
    /\ LET a == call.args[i]
           b0 == BboxOrPlaceholder(shapes, a.bbox)
       IN  IF UnknownPreset(b0)
           THEN /\ pc' = [pc EXCEPT ![i] = "raised"]
                /\ ret' = [ret EXCEPT ![i].raised = "ValueError"]
           ELSE /\ pc' = [pc EXCEPT ![i] = "bbox"]
                /\ ret' = [ret EXCEPT ![i].use_placeholder = UsePlaceholder(shapes, a.bbox),
                                      ![i].bbox = TargetBbox(b0),
                                      ![i].replace = a.replace,
                                      ![i].target_z_order = a.target_z_order]
    /\ UNCHANGED <<shapes, zorder, shapes0>>
    /\ ConcurrentFrame

\* lines 508-528: the picture that overlaps most is deleted, or replace
\* becomes False; then the aspect ratio is fitted
StepReplace(i) ==
    /\ pc[i] = "bbox"
    /\ LET a == call.args[i]
           pics == _pictures(shapes)
           k == ReplacedIndex(ret[i].replace, ret[i].bbox, pics)
           d == IF k # 0 THEN HostDelete(shapes, zorder, pics[k].id)
                ELSE <<shapes, zorder>>
           bbox == IF k # 0 THEN RectOf(pics[k]) ELSE ret[i].bbox
       IN  /\ shapes' = d[1]
           /\ zorder' = d[2]
           /\ ret' = [ret EXCEPT
                  ![i].replace = (k # 0),
                  ![i].target_z_order =
                      IF k # 0 THEN Some(ZOrderPosition(zorder, pics[k].id)) ELSE @,
                  ![i].bbox = IF a.keep_aspect THEN _keep_aspect(bbox, a.w, a.h)
                              ELSE bbox]
    /\ pc' = [pc EXCEPT ![i] = "replaced"]
    /\ UNCHANGED shapes0
    /\ ConcurrentFrame

\* lines 531-535: the empty placeholders are deleted or filled
StepPlaceholders(i) ==
    /\ pc[i] = "replaced"
    /\ LET a == call.args[i]
           deleting == ~ret[i].use_placeholder /\ a.delete_placeholders
           filling == ~ret[i].use_placeholder /\ ~a.delete_placeholders
                      /\ ~ret[i].replace
       IN  /\ shapes' = IF deleting THEN _delete_empty_placeholders(shapes, zorder)[1]
                        ELSE IF filling THEN _fill_empty_placeholders(shapes)
                        ELSE shapes
           /\ zorder' = IF deleting THEN _delete_empty_placeholders(shapes, zorder)[2]
                        ELSE zorder
           /\ ret' = [ret EXCEPT ![i].items = IF filling THEN FilledItems(shapes) ELSE <<>>]
    /\ pc' = [pc EXCEPT ![i] = "prepared"]
    /\ UNCHANGED shapes0
    /\ ConcurrentFrame

\* lines 536-538: Slide.Shapes.AddPicture
StepAddPicture(i) ==
    /\ pc[i] = "prepared"
    /\ \E keepsRect \in IF HostAbsorbs(shapes) THEN BOOLEAN ELSE {TRUE} :
        LET added == HostAddPicture(shapes, zorder, ret[i].bbox, keepsRect)
        IN  /\ shapes' = added[1]
            /\ zorder' = added[2]
            /\ shapes0' = added[1]
            /\ ret' = [ret EXCEPT ![i].shape = added[3]]
    /\ pc' = [pc EXCEPT ![i] = "added"]
    /\ ConcurrentFrame

\* lines 540-553: the z-order is adjusted and the rectangle of the shape is
\* read; the host raises when the shape is no longer there
StepZOrder(i) ==
    /\ pc[i] = "added"
    /\ IF ret[i].shape \in Ids(shapes)
       THEN /\ zorder' = AdjustZOrder(zorder, ret[i].shape, ret[i].target_z_order)
            /\ pc' = [pc EXCEPT ![i] = "ordered"]
            /\ ret' = ret
       ELSE /\ zorder' = zorder
            /\ pc' = [pc EXCEPT ![i] = "raised"]
            /\ ret' = [ret EXCEPT ![i].raised = "com_error"]
    /\ UNCHANGED <<shapes, shapes0>>
    /\ ConcurrentFrame

\* lines 556-559: the filled placeholders are reverted and the file is
\* removed; the host raises when a filled placeholder is no longer there
StepCleanUp(i) ==
    /\ pc[i] = "ordered"
    /\ LET a == call.args[i]
           reverting == ~ret[i].use_placeholder /\ ~a.delete_placeholders
                        /\ ~ret[i].replace
           items == ret[i].items
       IN  IF reverting /\ \E n \in 1..Len(items) : items[n] \notin Ids(shapes)
           THEN /\ shapes' = shapes
                /\ pc' = [pc EXCEPT ![i] = "raised"]
                /\ ret' = [ret EXCEPT ![i].raised = "com_error"]
           ELSE /\ shapes' = IF reverting THEN _revert_filled_placeholders(shapes, items)
                             ELSE shapes
                /\ pc' = [pc EXCEPT ![i] = "done"]
                /\ ret' = ret
    /\ UNCHANGED <<zorder, shapes0>>
    /\ ConcurrentFrame

NextConcurrent ==
    \E i \in Requests :
        \/ StepBbox(i)
        \/ StepReplace(i)
        \/ StepPlaceholders(i)
        \/ StepAddPicture(i)
        \/ StepZOrder(i)
        \/ StepCleanUp(i)

SpecConcurrent == InitConcurrent /\ [][NextConcurrent]_vars

\* both requests have returned
BothDone == DOMAIN pc = Requests /\ \A i \in Requests : pc[i] = "done"

\* a shape without its id
WithoutId(s) ==
    [Type |-> s.Type, phType |-> s.phType, ContainedType |-> s.ContainedType,
     hasTextFrame |-> s.hasTextFrame, Text |-> s.Text,
     Left |-> s.Left, Top |-> s.Top, Width |-> s.Width, Height |-> s.Height]

\* the slide as a presentation shows it: its shapes from back to front
SlideView(S, Z) == [n \in 1..Len(Z) |-> WithoutId(ShapeById(S, Z[n]))]

\* the slide <<S, Z>> with the id from of a shape changed into to
Renamed(S, Z, from, to) ==
    << [n \in 1..Len(S) |-> IF S[n].id = from THEN [S[n] EXCEPT !.id = to] ELSE S[n]],
       [n \in 1..Len(Z) |-> IF Z[n] = from THEN to ELSE Z[n]] >>

\* the slide after the call a and then the call b of _add_figure, each run
\* alone, the host keeping the rectangle as k1 and k2 say
OneAfterTheOther(S, a, b, k1, k2) ==
    LET Z == [n \in 1..Len(S) |-> S[n].id]
        r1 == _add_figure(S, Z, a, [fails |-> FALSE, keepsRect |-> k1])
        s1 == Renamed(r1.shapes, r1.zorder, FreshId, FreshId + 1)
        r2 == _add_figure(s1[1], s1[2], b, [fails |-> FALSE, keepsRect |-> k2])
    IN  SlideView(r2.shapes, r2.zorder)

\* the slides the two requests can leave when one is served after the other
SerialResults ==
    {OneAfterTheOther(call.slide, call.args[o[1]], call.args[o[2]], k1, k2) :
        o \in {<<1, 2>>, <<2, 1>>}, k1 \in BOOLEAN, k2 \in BOOLEAN}

\* request i has filled a placeholder with the temporary text and has not
\* yet reverted it
HasFilled(i, id) ==
    /\ pc[i] \in {"prepared", "added", "ordered"}
    /\ \E n \in 1..Len(ret[i].items) : ret[i].items[n] = id

\* C30: when two /add_figure requests on one slide are served at once and
\* both have returned, the slide is what the two requests leave when served
\* one after the other, in one of the two orders.
C30_Serializable == BothDone => SlideView(shapes, zorder) \in SerialResults

\* both requests, with a bbox given and one of them deleting the empty
\* placeholders, have returned, and the empty placeholder the other had
\* filled with the temporary text is still on the slide: served one after
\* the other, in either order, they leave no empty placeholder
C30_Witness ==
    /\ BothDone
    /\ SlideView(shapes, zorder) \notin SerialResults
    /\ \A i \in Requests : call.args[i].bbox.kind # "None"
    /\ \E i \in Requests : call.args[i].delete_placeholders
    /\ \E i \in Requests, n \in 1..Len(shapes) :
          /\ shapes[n].id \in {ret[i].items[m] : m \in 1..Len(ret[i].items)}
          /\ _is_placeholder_empty(shapes[n])
    /\ \A v \in SerialResults : \A n \in 1..Len(v) :
          ~(v[n].Type = "msoPlaceholder" /\ v[n].ContainedType = "msoAutoShape"
            /\ v[n].Text = "")

\* a placeholder that one request has filled with the temporary text, and
\* not yet reverted, has been deleted by the other request
FilledPlaceholderDeleted ==
    \E i \in Requests : \E n \in 1..Len(ret[i].items) :
        /\ HasFilled(i, ret[i].items[n])
        /\ ret[i].items[n] \notin Ids(shapes)

====
